---------------------------- MODULE Spec2Model ----------------------------
(***************************************************************************)
(* A model of sphinx/builders/linkcheck.py: the HyperlinkAvailabilityChecker *)
(* (the generator check(), run by the builder's finish(), which hands each   *)
(* result to process_result), its HyperlinkAvailabilityCheckWorker threads,  *)
(* the priority work queue, the result queue and the shared rate_limits map. *)
(*                                                                           *)
(* Strings the code takes apart (URIs, docnames, fragments, patterns) are    *)
(* sequences of one-character strings, so that partition('#'), startswith,   *)
(* rstrip('/'), urlsplit().netloc and re.match are computed, not assumed.    *)
(* Messages are sequences of strings.  Instants and delays are integers      *)
(* (seconds).  Not modelled: request headers, auth and the socket timeout    *)
(* (they do not enter any result), and non-ASCII URIs (encode_uri).          *)
(***************************************************************************)
EXTENDS Integers, Sequences, FiniteSets, TLC

(***************************************************************************)
(* Bounds of the model.                                                      *)
(***************************************************************************)
\* the most 429 answers the network gives in one run (two more in the runs
\* of SpecBackoff)
Max429 == 1
\* the most calls of limit_rate in a run of SpecLimit
MaxCalls == 5
\* the seconds that pass in a run of SpecLimit
MaxClock == 2
\* the instant at which a run starts (time.time() is positive)
StartTime == 2

(***************************************************************************)
(* Program constants.                                                        *)
(***************************************************************************)
CHECK_IMMEDIATELY == 0
QUEUE_POLL_SECS == 1
DEFAULT_DELAY == 60

(***************************************************************************)
(* Strings.                                                                  *)
(***************************************************************************)
\* the code points of the characters the model uses (tuple comparison of
\* CheckRequest compares uri strings by code point)
Ord(c) ==
    CASE c = "#" -> 35 [] c = "." -> 46 [] c = "/" -> 47 [] c = ":" -> 58
      [] c = "?" -> 63 [] c = "a" -> 97 [] c = "d" -> 100 [] c = "e" -> 101
      [] c = "f" -> 102 [] c = "g" -> 103 [] c = "h" -> 104 [] c = "i" -> 105
      [] c = "l" -> 108 [] c = "m" -> 109 [] c = "o" -> 111 [] c = "p" -> 112
      [] c = "s" -> 115 [] c = "t" -> 116 [] c = "x" -> 120 [] c = "y" -> 121
      [] c = "!" -> 33 [] c = "1" -> 49 [] OTHER -> 0

Letters == {"a", "d", "e", "f", "g", "h", "i", "l", "m", "o", "p", "s", "t", "x", "y"}

\* s.startswith(p)
StartsWith(s, p) == Len(p) <= Len(s) /\ SubSeq(s, 1, Len(p)) = p

\* the index of the first character of s that is in cs, or 0
RECURSIVE FindFrom(_, _, _)
FindFrom(s, cs, i) ==
    IF i > Len(s) THEN 0
    ELSE IF s[i] \in cs THEN i
    ELSE FindFrom(s, cs, i + 1)

Find(s, cs) == FindFrom(s, cs, 1)

\* s.partition('#'): <<head, delimiter found, tail>>
Partition(s, c) ==
    LET i == Find(s, {c}) IN
    IF i = 0 THEN [head |-> s, delimiter |-> FALSE, tail |-> <<>>]
    ELSE [head |-> SubSeq(s, 1, i - 1), delimiter |-> TRUE,
          tail |-> SubSeq(s, i + 1, Len(s))]

\* a faulty variant of RStrip, which C10 must not survive: nothing is stripped
NoStrip(s) == s

\* s.rstrip('/'): every trailing '/' removed
RECURSIVE RStrip(_)
RStrip(s) ==
    IF Len(s) > 0 /\ s[Len(s)] = "/" THEN RStrip(SubSeq(s, 1, Len(s) - 1))
    ELSE s

\* a < b for strings, by code point as Python compares str
RECURSIVE StrLess(_, _)
StrLess(a, b) ==
    IF Len(b) = 0 THEN FALSE
    ELSE IF Len(a) = 0 THEN TRUE
    ELSE IF Ord(Head(a)) # Ord(Head(b)) THEN Ord(Head(a)) < Ord(Head(b))
    ELSE StrLess(Tail(a), Tail(b))

\* urlsplit(url).netloc: after an optional scheme, '//' starts the
\* authority, which ends at the next '/', '?' or '#'
Netloc(url) ==
    LET i == Find(url, {":"})
        hasScheme == i > 1 /\ \A k \in 1..(i - 1) : url[k] \in Letters
        rest == IF hasScheme THEN SubSeq(url, i + 1, Len(url)) ELSE url
        noFrag == Partition(rest, "#").head
    IN  IF StartsWith(noFrag, <<"/", "/">>)
        THEN LET auth == SubSeq(noFrag, 3, Len(noFrag))
                 j == Find(auth, {"/", "?"})
             IN  IF j = 0 THEN auth ELSE SubSeq(auth, 1, j - 1)
        ELSE <<>>

\* A compiled pattern is a literal anchored at the start ("^lit"), with
\* full set when it is also anchored at the end ("^lit$").
\* pat.match(s): re.match matches at the start of s
Match(pat, s) ==
    /\ StartsWith(s, pat.lit)
    /\ pat.full => Len(s) = Len(pat.lit)


(***************************************************************************)
(* Values.                                                                   *)
(***************************************************************************)
\* Hyperlink(uri, docname, lineno)
Hyperlink(uri, docname, lineno) ==
    [uri |-> uri, docname |-> docname, lineno |-> lineno]

\* CheckRequest(next_check, hyperlink); hyperlink is <<>> for None (the
\* shutdown sentinel) and <<h>> for the Hyperlink h
CheckRequest(next_check, hyperlink) ==
    [next_check |-> next_check, hyperlink |-> hyperlink]

\* CheckResult(uri, docname, lineno, status, message, code)
CheckResult(uri, docname, lineno, status, message, code) ==
    [uri |-> uri, docname |-> docname, lineno |-> lineno,
     status |-> status, message |-> message, code |-> code]

\* RateLimit(delay, next_check)
RateLimit(delay, next_check) == [delay |-> delay, next_check |-> next_check]

\* what check_uri and check return: (status, info, code)
Outcome(status, info, code) == [status |-> status, info |-> info, code |-> code]

\* the Retry-After header as the response carries it: absent, a number of
\* seconds, an HTTP-date with a zone, an HTTP-date with zone -0000 (which
\* parsedate_to_datetime turns into a naive datetime), or unparseable text
Absent == [kind |-> "absent", val |-> 0]
Seconds(n) == [kind |-> "num", val |-> n]
HttpDate(t) == [kind |-> "date", val |-> t]
NaiveDate(t) == [kind |-> "naive", val |-> t]
Junk == [kind |-> "junk", val |-> 0]

\* the index of the last "/" of s, or 0
RECURSIVE LastSlash(_, _)
LastSlash(s, i) ==
    IF i = 0 THEN 0
    ELSE IF s[i] = "/" THEN i
    ELSE LastSlash(s, i - 1)

\* path.dirname(p) of a relative path
Dirname(p) ==
    LET i == LastSlash(p, Len(p)) IN
    IF i = 0 THEN <<>> ELSE SubSeq(p, 1, i - 1)

\* path.join(dir, name)
PathJoin(dir, name) ==
    IF StartsWith(name, <<"/">>) THEN name
    ELSE IF dir = <<>> \/ dir[Len(dir)] = "/" THEN dir \o name
    ELSE dir \o <<"/">> \o name

(***************************************************************************)
(* The texts of the model's inputs.                                          *)
(***************************************************************************)
UriHX == <<"h", "t", "t", "p", ":", "/", "/", "h", "/", "x">>
UriHXSlash == UriHX \o <<"/">>
UriHYa == <<"h", "t", "t", "p", ":", "/", "/", "h", "/", "y", "#", "a">>
UriHYBang == <<"h", "t", "t", "p", ":", "/", "/", "h", "/", "y", "#", "!", "a">>
UriGX == <<"h", "t", "t", "p", ":", "/", "/", "g", "/", "x">>
UriI == <<"h", "t", "t", "p", ":", "/", "/", "i", "/">>
UriMail == <<"m", "a", "i", "l", "t", "o", ":", "m">>
UriFtp == <<"f", "t", "p", ":", "/", "/", "f">>
UriFile == <<"i", "m", "g">>
UriTel == <<"t", "e", "l", ":", "1">>
UriHash == <<"#", "a">>
UriEmpty == <<>>
UriRel == <<"/", "/", "g", "/", "x">>
UriMissing == <<"x">>
FileInD == <<"d", "/", "i", "m", "g">>
DocD == <<"d">>
DocE == <<"e">>
DocSub == <<"d", "/", "d">>

\* "^http://i"
PatI == [lit |-> <<"h", "t", "t", "p", ":", "/", "/", "i">>, full |-> FALSE]
\* "^e"
PatE == [lit |-> <<"e">>, full |-> FALSE]
\* "^http://h/x$" and "^http://h/x/$"
PatHX == [lit |-> UriHX, full |-> TRUE]
PatHXSlash == [lit |-> UriHXSlash, full |-> TRUE]
\* "^http://g/"
PatG == [lit |-> <<"h", "t", "t", "p", ":", "/", "/", "g", "/">>, full |-> FALSE]

LinkHX == Hyperlink(UriHX, DocD, 1)
LinkHYa == Hyperlink(UriHYa, DocD, 2)
LinkI == Hyperlink(UriI, DocD, 3)
LinkMail == Hyperlink(UriMail, DocD, 4)
LinkFile == Hyperlink(UriFile, DocD, 5)
LinkExcl == Hyperlink(UriHX, DocE, 6)
LinkHYBang == Hyperlink(UriHYBang, DocD, 7)
LinkExclY == Hyperlink(UriHYa, DocE, 8)
LinkMailExcl == Hyperlink(UriMail, DocE, 9)
LinkFileExcl == Hyperlink(UriFile, DocE, 10)
LinkFileSub == Hyperlink(UriFile, DocSub, 11)
LinkTel == Hyperlink(UriTel, DocD, 12)
LinkHash == Hyperlink(UriHash, DocD, 13)
LinkEmpty == Hyperlink(UriEmpty, DocD, 14)
LinkFtp == Hyperlink(UriFtp, DocD, 15)
LinkRel == Hyperlink(UriRel, DocD, 16)
LinkMissing == Hyperlink(UriMissing, DocD, 17)

(***************************************************************************)
(* The configuration (the linkcheck options) and the files of the source    *)
(* directory are inputs: a record                                            *)
(*   [linkcheck_ignore, linkcheck_exclude_documents,                         *)
(*    linkcheck_allowed_redirects, linkcheck_retries, linkcheck_workers,     *)
(*    linkcheck_anchors, linkcheck_anchors_ignore,                           *)
(*    linkcheck_rate_limit_timeout, files].                                  *)
(* linkcheck_ignore and linkcheck_anchors_ignore are sets of patterns (the   *)
(* code asks whether any matches), linkcheck_exclude_documents a sequence    *)
(* (the first match names the reason), linkcheck_allowed_redirects a set of *)
(* pairs [from, to].                                                         *)
(***************************************************************************)

(***************************************************************************)
(* The pure parts of the worker.                                             *)
(***************************************************************************)
\* the message of an exception, str(err)
ErrorText(kind) == <<kind>>

HTTPErrorText(status) == <<"HTTPError", ToString(status)>>

\* f'Anchor {anchor!r} not found'
AnchorNotFound(anchor) == <<"Anchor '">> \o anchor \o <<"' not found">>

\* error_message = None
NoneText == <<"None">>

\* a faulty variant of is_ignored_uri, which C2 must not survive: no URI is
\* ever ignored
never_ignored_uri(to_ignore, uri) == FALSE

\* is_ignored_uri: any(pat.match(uri) for pat in self.to_ignore)
is_ignored_uri(to_ignore, uri) == \E pat \in to_ignore : Match(pat, uri)

\* check_uri: req_url of uri.partition('#')
ReqUrl(uri) == Partition(uri, "#").head

\* check_uri: the anchor of uri.partition('#'), emptied when a pattern of
\* anchors_ignore matches it
Anchor(uri, anchors_ignore) ==
    LET p == Partition(uri, "#") IN
    IF p.delimiter /\ p.tail # <<>> /\ \E rex \in anchors_ignore : Match(rex, p.tail)
    THEN <<>>
    ELSE p.tail

\* a faulty variant of RetrievalMethods, which C22 must not survive: HEAD is
\* tried first also when the page content is required
RetrievalMethodsBoth(linkcheck_anchors, anchor) == <<"HEAD", "GET">>

\* _retrieval_methods: HEAD unless the page content is required, then GET
RetrievalMethods(linkcheck_anchors, anchor) ==
    (IF ~linkcheck_anchors \/ anchor = <<>> THEN <<"HEAD">> ELSE <<>>) \o <<"GET">>

\* AnchorCheckParser.handle_starttag over the body: the body is the set of
\* the attributes [key, value] of its start tags; unquote leaves the model's
\* anchors (no '%') as they are
contains_anchor(body, anchor) ==
    \E attr \in body : attr.key \in {"id", "name"} /\ attr.value = anchor

\* response.ok, and raise_for_status raising HTTPError
ResponseOk(status) == status < 400

\* check_uri: the condition under which the response body is searched for
\* the anchor (the first two conjuncts of line 324)
InspectsBody(linkcheck_anchors, status, anchor) ==
    ResponseOk(status) /\ anchor # <<>>

\* One retrieval method of check_uri, from the request to the end of its
\* except clauses.  out is what the network gave: an exception kind, or a
\* response [kind |-> "response", status, url, history, retry_after, body],
\* history being <<>> or <<the status of the last redirect hop>>.
\* tag "return": check_uri returns outcome; "continue": next method;
\* "limit": HTTP 429, limit_rate is called; "break": success.
MethodStep(linkcheck_anchors, anchor, out) ==
    LET verdict(tag, outcome, error_message) ==
            [tag |-> tag, outcome |-> outcome, error_message |-> error_message]
        none == Outcome("", <<>>, 0)
    IN
    IF out.kind = "SSLError"
    THEN verdict("return", Outcome("broken", ErrorText(out.kind), 0), NoneText)
    ELSE IF out.kind \in {"ConnectionError", "TooManyRedirects"}
    THEN verdict("continue", none, ErrorText(out.kind))
    ELSE IF out.kind # "response"
    THEN verdict("return", Outcome("broken", ErrorText(out.kind), 0), NoneText)
    ELSE IF /\ InspectsBody(linkcheck_anchors, out.status, anchor)
            /\ ~contains_anchor(out.body, anchor)
    THEN verdict("return", Outcome("broken", AnchorNotFound(anchor), 0), NoneText)
    ELSE IF ResponseOk(out.status)
    THEN verdict("break", none, NoneText)
    ELSE IF out.status = 401
    THEN verdict("return", Outcome("working", <<"unauthorized">>, 0),
                 HTTPErrorText(out.status))
    ELSE IF out.status = 429
    THEN verdict("limit", none, HTTPErrorText(out.status))
    ELSE IF out.status = 503
    THEN verdict("return", Outcome("ignored", <<"service unavailable">>, 0),
                 HTTPErrorText(out.status))
    ELSE verdict("continue", none, HTTPErrorText(out.status))

\* a faulty variant of allowed_redirect, which C9 must not survive: only the
\* pattern of the source is matched
allowed_redirect_from(allowed_redirects, url, new_url) ==
    \E pair \in allowed_redirects : Match(pair.from, url)

\* allowed_redirect(url, new_url)
allowed_redirect(allowed_redirects, url, new_url) ==
    \E pair \in allowed_redirects : Match(pair.from, url) /\ Match(pair.to, new_url)

\* check_uri after a successful response: working or redirected
Classify(allowed_redirects, req_url, response_url, history) ==
    IF \/ RStrip(response_url) = RStrip(req_url)
       \/ allowed_redirect(allowed_redirects, req_url, response_url)
    THEN Outcome("working", <<>>, 0)
    ELSE IF history # <<>>
    THEN Outcome("redirected", response_url, history[1])
    ELSE Outcome("redirected", response_url, 0)

\* check: the conditions checked without bothering the network.  decided
\* is FALSE when the URI has to be checked over the network.  config.files
\* are the files that exist, as paths relative to the source directory, as
\* docnames are.
RECURSIVE FirstMatch(_, _, _)
FirstMatch(pats, s, i) ==
    IF i > Len(pats) THEN 0
    ELSE IF Match(pats[i], s) THEN i
    ELSE FirstMatch(pats, s, i + 1)

\* uri_re.match(uri): '([a-z]+:)?//'
uri_re_match(uri) ==
    \/ StartsWith(uri, <<"/", "/">>)
    \/ LET i == Find(uri, {":"}) IN
       /\ i > 1
       /\ \A k \in 1..(i - 1) : uri[k] \in Letters
       /\ StartsWith(SubSeq(uri, i + 1, Len(uri)), <<"/", "/">>)

\* a faulty variant of Triage, which C23 must not survive: the URI is
\* looked at before the document
TriageUriFirst(config, uri, docname) ==
    LET m == FirstMatch(config.linkcheck_exclude_documents, docname, 1)
        decided(o) == [decided |-> TRUE, outcome |-> o]
    IN
    IF \/ Len(uri) = 0
       \/ StartsWith(uri, <<"#">>)
       \/ StartsWith(uri, <<"m", "a", "i", "l", "t", "o", ":">>)
       \/ StartsWith(uri, <<"t", "e", "l", ":">>)
    THEN decided(Outcome("unchecked", <<>>, 0))
    ELSE IF m # 0
    THEN decided(Outcome("ignored",
                 docname \o <<" matched ">>
                   \o config.linkcheck_exclude_documents[m].lit
                   \o <<" from linkcheck_exclude_documents">>, 0))
    ELSE IF ~(\/ StartsWith(uri, <<"h", "t", "t", "p", ":">>)
              \/ StartsWith(uri, <<"h", "t", "t", "p", "s", ":">>))
    THEN IF uri_re_match(uri)
         THEN decided(Outcome("unchecked", <<>>, 0))
         ELSE IF PathJoin(Dirname(docname), uri) \in config.files
         THEN decided(Outcome("working", <<>>, 0))
         ELSE decided(Outcome("broken", <<>>, 0))
    ELSE [decided |-> FALSE, outcome |-> Outcome("", <<>>, 0)]

Triage(config, uri, docname) ==
    LET m == FirstMatch(config.linkcheck_exclude_documents, docname, 1)
        decided(o) == [decided |-> TRUE, outcome |-> o]
    IN
    IF m # 0
    THEN decided(Outcome("ignored",
                 docname \o <<" matched ">>
                   \o config.linkcheck_exclude_documents[m].lit
                   \o <<" from linkcheck_exclude_documents">>, 0))
    ELSE IF \/ Len(uri) = 0
            \/ StartsWith(uri, <<"#">>)
            \/ StartsWith(uri, <<"m", "a", "i", "l", "t", "o", ":">>)
            \/ StartsWith(uri, <<"t", "e", "l", ":">>)
    THEN decided(Outcome("unchecked", <<>>, 0))
    ELSE IF ~(\/ StartsWith(uri, <<"h", "t", "t", "p", ":">>)
              \/ StartsWith(uri, <<"h", "t", "t", "p", "s", ":">>))
    THEN IF uri_re_match(uri)
         THEN decided(Outcome("unchecked", <<>>, 0))
         ELSE IF PathJoin(Dirname(docname), uri) \in config.files
         THEN decided(Outcome("working", <<>>, 0))
         ELSE decided(Outcome("broken", <<>>, 0))
    ELSE [decided |-> FALSE, outcome |-> Outcome("", <<>>, 0)]

\* a faulty variant of RetryAgain, which C11 must not survive: the retry
\* loop goes on whatever the status of the attempt
RetryAlways(status, attempt, retries) == attempt < retries

\* check: the retry loop runs check_uri again after an attempt that ended
\* broken, while attempts are left
RetryAgain(status, attempt, retries) == status = "broken" /\ attempt < retries

\* a faulty variant of PushesResult, which C1 must not survive: the result
\* is put on the result queue whatever the status
PushesAnyResult(status) == TRUE

\* run: every status but 'rate-limited' is put on the result queue
PushesResult(status) == status # "rate-limited"

(***************************************************************************)
(* limit_rate.                                                               *)
(***************************************************************************)
\* a faulty variant of Backoff, which C7 must not survive: the doubled delay
\* is never clamped
BackoffUnclamped(last_wait_time, max_delay) == 2 * last_wait_time

\* the exponential back-off: twice the last delay, clamped once to max_delay
Backoff(last_wait_time, max_delay) ==
    LET delay == 2 * last_wait_time IN
    IF delay > max_delay /\ last_wait_time < max_delay THEN max_delay ELSE delay

\* a faulty variant of GivesUp, which C6 must not survive: limit_rate never
\* returns None
NeverGivesUp(delay, max_delay) == FALSE

\* limit_rate: if delay > max_delay: return None
GivesUp(delay, max_delay) == delay > max_delay

\* limit_rate up to its store.  ret "raise": the naive datetime of a
\* -0000 date cannot be subtracted from an aware one (TypeError);
\* ret "none": return None; ret "store": the record is stored next, with
\* next_check = time.time() + delay read then when timed is set.  header
\* keeps which kind of Retry-After the call was given.
LimitRatePlan(rate_limits, response_url, retry_after, t, max_delay) ==
    LET netloc == Netloc(response_url)
        plan(ret, delay, next_check, timed) ==
            [ret |-> ret, netloc |-> netloc, delay |-> delay,
             next_check |-> next_check, timed |-> timed, header |-> retry_after.kind]
    IN
    IF retry_after.kind = "num"
    THEN plan("store", retry_after.val, t + retry_after.val, FALSE)
    ELSE IF retry_after.kind = "date"
    THEN plan("store", retry_after.val - t, retry_after.val, FALSE)
    ELSE IF retry_after.kind = "naive"
    THEN plan("raise", 0, retry_after.val, FALSE)
    ELSE LET delay == IF netloc \in DOMAIN rate_limits
                      THEN Backoff(rate_limits[netloc].delay, max_delay)
                      ELSE DEFAULT_DELAY
         IN  IF GivesUp(delay, max_delay)
             THEN plan("none", delay, 0, FALSE)
             ELSE plan("store", delay, 0, TRUE)

\* the instant limit_rate stores and returns
PlanNextCheck(plan, t) == IF plan.timed THEN t + plan.delay ELSE plan.next_check

\* self.rate_limits[netloc] = RateLimit(delay, next_check)
StoreRateLimit(rate_limits, netloc, rate_limit) ==
    [n \in DOMAIN rate_limits \cup {netloc} |->
        IF n = netloc THEN rate_limit ELSE rate_limits[n]]

\* del self.rate_limits[netloc], a KeyError passed over
ClearRateLimit(rate_limits, netloc) ==
    [n \in DOMAIN rate_limits \ {netloc} |-> rate_limits[n]]

\* a faulty variant of Truthy, which C18 must not survive: the next_check
\* limit_rate returns is taken for none
NeverTruthy(next_check) == FALSE

\* if next_check := self.limit_rate(...): None and 0.0 are false
Truthy(next_check) == next_check # 0

(***************************************************************************)
(* The work queue: a PriorityQueue of CheckRequest tuples, kept here as the *)
(* sequence of its items in ascending order.                                 *)
(***************************************************************************)
\* Hyperlink tuples compare by uri, then docname, then lineno
HyperlinkLess(a, b) ==
    IF a.uri # b.uri THEN StrLess(a.uri, b.uri)
    ELSE IF a.docname # b.docname THEN StrLess(a.docname, b.docname)
    ELSE a.lineno < b.lineno

\* CheckRequest tuples compare by next_check, then hyperlink.  Python cannot
\* order None and a Hyperlink (TypeError); the sentinels are put after join
\* has returned, when no request is queued or held (NoMixedQueue below), and
\* are placed first here.
RequestLess(a, b) ==
    \/ a.next_check < b.next_check
    \/ /\ a.next_check = b.next_check
       /\ \/ a.hyperlink = <<>> /\ b.hyperlink # <<>>
          \/ /\ a.hyperlink # <<>>
             /\ b.hyperlink # <<>>
             /\ HyperlinkLess(a.hyperlink[1], b.hyperlink[1])

\* PriorityQueue.put
RECURSIVE QueuePut(_, _)
QueuePut(queue, item) ==
    IF queue = <<>> THEN <<item>>
    ELSE IF RequestLess(item, Head(queue)) THEN <<item>> \o queue
    ELSE <<Head(queue)>> \o QueuePut(Tail(queue), item)

(***************************************************************************)
(* The network: what a request may be answered with.  The servers of a run  *)
(* are an input, a record                                                    *)
(*   [raises, statuses, redirects, histories, bodies, retry_afters, max429]: *)
(* the exceptions a request may raise, the error statuses other than 429,   *)
(* the ways the final URL may differ from the requested one ("same",         *)
(* "slash": a trailing slash added, "other": a page of another origin), the *)
(* statuses of the last redirect hop (<<>>: no hop), the bodies of           *)
(* successful responses, the Retry-After headers of 429 answers, and how    *)
(* many 429 answers the servers give in a run.                               *)
(***************************************************************************)
FinalUrl(req_url, redirect) ==
    CASE redirect = "slash" -> req_url \o <<"/">>
      [] redirect = "other" -> UriGX
      [] OTHER -> req_url

Response(status, url, history, retry_after, body) ==
    [kind |-> "response", status |-> status, url |-> url, history |-> history,
     retry_after |-> retry_after, body |-> body]

Raised(kind) ==
    [kind |-> kind, status |-> 0, url |-> <<>>, history |-> <<>>,
     retry_after |-> Absent, body |-> {}]

\* the answers to a request of req_url by method; a HEAD response has no
\* body; limited: whether the network may still answer 429
NetworkOutcomes(net, method, req_url, limited) ==
    {Raised(k) : k \in net.raises}
    \cup {Response(200, FinalUrl(req_url, r), h, Absent, b) :
            r \in net.redirects, h \in net.histories,
            b \in IF method = "HEAD" THEN {{}} ELSE net.bodies}
    \cup {Response(s, req_url, <<>>, Absent, {}) : s \in net.statuses}
    \cup (IF limited
          THEN {Response(429, FinalUrl(req_url, r), <<>>, ra, {}) :
                  r \in net.redirects \ {"slash"}, ra \in net.retry_afters}
          ELSE {})

(***************************************************************************)
(* State.                                                                    *)
(***************************************************************************)
VARIABLES
    config,            \* the configuration and the files on disk (inputs)
    network,           \* the servers of the run (input)
    hyperlinks,        \* the values of the input mapping, in its order (input)
    now,               \* time.time()
    rate_limits,       \* HyperlinkAvailabilityChecker.rate_limits
    wqueue,            \* HyperlinkAvailabilityChecker.wqueue, ascending
    unfinished_tasks,  \* wqueue.unfinished_tasks, what join waits for
    rqueue,            \* HyperlinkAvailabilityChecker.rqueue
    worker,            \* each worker thread's position and locals
    caller,            \* the position and locals of the generator check()
    yielded,           \* the results check() has yielded, in order
    history            \* what has happened so far (not program state)

vars ==
    <<config, network, hyperlinks, now, rate_limits, wqueue, unfinished_tasks, rqueue,
      worker, caller, yielded, history>>

Workers == DOMAIN worker

NoRequest == CheckRequest(0, <<>>)
NoOutcome == Outcome("", <<>>, 0)
NoRateLimits == [n \in {} |-> RateLimit(0, 0)]
\* the locals of check_uri copied from the closed response; status_code
\* starts at -1
NoResponse == [status_code |-> 0 - 1, response_url |-> <<>>, history |-> <<>>]
NoPlan ==
    [ret |-> "", netloc |-> <<>>, delay |-> 0, next_check |-> 0, timed |-> FALSE,
     header |-> ""]

\* a worker that holds nothing; status is the status of check(), assigned
\* by each attempt of the retry loop
Idle(pc) ==
    [pc |-> pc, check_request |-> NoRequest, next_check |-> 0, wake |-> 0,
     attempt |-> 0, status |-> "", req_url |-> <<>>, anchor |-> <<>>, methods |-> <<>>,
     error_message |-> NoneText, response |-> NoResponse, plan |-> NoPlan, outcome |-> NoOutcome]

\* the Hyperlink a worker holds
Held(w) == worker[w].check_request.hyperlink[1]

\* history: n429, the 429 answers given; handled, the URIs workers have
\* dequeued; requested, the URIs requests were issued for; inspected, the
\* URIs whose response body was searched for the anchor, each with whether
\* the anchor was found; limited, for each rate limit stored, the URI
\* checked, the origin that answered 429 and the kind of its Retry-After
\* header; last429, the final URL and the Retry-After of the last 429 and
\* the instant it was answered; runs (SpecLimit), for each origin the calls
\* of limit_rate since its last success; ended, the URIs a request of which
\* was answered by 401 or 503 or failed by SSLError, each with which of the
\* three; late, the members of ended a request was issued for afterwards;
\* answer, for each worker that holds a request it has issued a request
\* for, the method of its last request and the answer it got (an exception
\* kind, or "response" and the status)
NoHistory ==
    [n429 |-> 0, handled |-> {}, requested |-> {}, inspected |-> {}, limited |-> {},
     last429 |-> [url |-> <<>>, retry_after |-> Absent, at |-> 0],
     runs |-> <<>>, ended |-> {}, late |-> {}, answer |-> <<>>]

InitWith(configs, networks, inputs) ==
    /\ config \in configs
    /\ network \in networks
    /\ hyperlinks \in inputs
    /\ now = StartTime
    /\ rate_limits = NoRateLimits
    /\ wqueue = <<>>
    /\ unfinished_tasks = 0
    /\ rqueue = <<>>
    /\ worker = [w \in 1..config.linkcheck_workers |-> Idle("unstarted")]
    /\ caller = [pc |-> "invoke", i |-> 1, total_links |-> 0, done |-> 0, sent |-> 0,
                 broken_hyperlinks |-> 0, statuscode |-> 0]
    /\ yielded = <<>>
    /\ history = NoHistory

(***************************************************************************)
(* The caller: CheckExternalLinksBuilder.finish, which runs the generator    *)
(* HyperlinkAvailabilityChecker.check and hands every result it yields to    *)
(* process_result.  The locals of both are in caller; broken_hyperlinks is   *)
(* 0 after init, and statuscode is the application's, 0 until finish sets   *)
(* it.                                                                       *)
(***************************************************************************)
\* a faulty variant of process_result, which C13 must not survive: a broken
\* result is reported but not counted
process_result_uncounted(broken_hyperlinks, result) ==
    [broken_hyperlinks |-> broken_hyperlinks,
     raised |-> result.status \notin {"unchecked", "working", "ignored", "local",
                                      "broken", "redirected"}]

\* process_result: the count of broken links after result, and whether an
\* exception was raised: ValueError for an unknown status, TypeError for a
\* broken result whose message is None and cannot be concatenated
process_result(broken_hyperlinks, result) ==
    IF result.status = "unchecked"
    THEN [broken_hyperlinks |-> broken_hyperlinks, raised |-> FALSE]
    ELSE IF result.status = "working" /\ result.message = <<"old">>
    THEN [broken_hyperlinks |-> broken_hyperlinks, raised |-> FALSE]
    ELSE IF result.status \in {"ignored", "local", "working", "redirected"}
    THEN [broken_hyperlinks |-> broken_hyperlinks, raised |-> FALSE]
    ELSE IF result.status = "broken"
    THEN IF result.message = NoneText
         THEN [broken_hyperlinks |-> broken_hyperlinks, raised |-> TRUE]
         ELSE [broken_hyperlinks |-> broken_hyperlinks + 1, raised |-> FALSE]
    ELSE [broken_hyperlinks |-> broken_hyperlinks, raised |-> TRUE]

\* the body of the for loop of finish, run with the result check() has just
\* yielded; an exception ends finish
Processed(me, result) ==
    LET p == process_result(me.broken_hyperlinks, result) IN
    IF p.raised THEN [me EXCEPT !.pc = "raised"]
    ELSE [me EXCEPT !.broken_hyperlinks = p.broken_hyperlinks]

\* invoke_threads: every worker thread is started
invoke_threads ==
    /\ caller.pc = "invoke"
    /\ worker' = [w \in Workers |-> Idle("get")]
    /\ caller' = [caller EXCEPT !.pc = "feed"]
    /\ UNCHANGED <<config, network, hyperlinks, now, rate_limits, wqueue, unfinished_tasks,
                   rqueue, yielded, history>>

\* the for loop of check, an ignored hyperlink: its result is yielded and
\* processed
FeedIgnored ==
    /\ caller.pc = "feed"
    /\ caller.i <= Len(hyperlinks)
    /\ LET hyperlink == hyperlinks[caller.i] IN
       /\ is_ignored_uri(config.linkcheck_ignore, hyperlink.uri)
       /\ yielded' = Append(yielded,
              CheckResult(hyperlink.uri, hyperlink.docname, hyperlink.lineno,
                          "ignored", <<>>, 0))
       /\ caller' = Processed([caller EXCEPT !.i = @ + 1],
              CheckResult(hyperlink.uri, hyperlink.docname, hyperlink.lineno,
                          "ignored", <<>>, 0))
    /\ UNCHANGED <<config, network, hyperlinks, now, rate_limits, wqueue, unfinished_tasks,
                   rqueue, worker, history>>

\* the for loop of check, any other hyperlink: it is put on the work queue
FeedPut ==
    /\ caller.pc = "feed"
    /\ caller.i <= Len(hyperlinks)
    /\ LET hyperlink == hyperlinks[caller.i] IN
       /\ ~is_ignored_uri(config.linkcheck_ignore, hyperlink.uri)
       /\ wqueue' = QueuePut(wqueue, CheckRequest(CHECK_IMMEDIATELY, <<hyperlink>>))
    /\ unfinished_tasks' = unfinished_tasks + 1
    /\ caller' = [caller EXCEPT !.i = @ + 1, !.total_links = @ + 1]
    /\ UNCHANGED <<config, network, hyperlinks, now, rate_limits, rqueue, worker, yielded,
                   history>>

\* the for loop of check ends
FeedEnd ==
    /\ caller.pc = "feed"
    /\ caller.i > Len(hyperlinks)
    /\ caller' = [caller EXCEPT !.pc = "drain"]
    /\ UNCHANGED <<config, network, hyperlinks, now, rate_limits, wqueue, unfinished_tasks,
                   rqueue, worker, yielded, history>>

\* while done < total_links: yield self.rqueue.get()
Drain ==
    /\ caller.pc = "drain"
    /\ caller.done < caller.total_links
    /\ rqueue # <<>>
    /\ yielded' = Append(yielded, Head(rqueue))
    /\ rqueue' = Tail(rqueue)
    /\ caller' = Processed([caller EXCEPT !.done = @ + 1], Head(rqueue))
    /\ UNCHANGED <<config, network, hyperlinks, now, rate_limits, wqueue, unfinished_tasks,
                   worker, history>>

\* the while loop of check ends and shutdown_threads is entered
DrainEnd ==
    /\ caller.pc = "drain"
    /\ caller.done >= caller.total_links
    /\ caller' = [caller EXCEPT !.pc = "join"]
    /\ UNCHANGED <<config, network, hyperlinks, now, rate_limits, wqueue, unfinished_tasks,
                   rqueue, worker, yielded, history>>

\* a faulty variant of Join, which C12 must not survive: join returns
\* without waiting for the unfinished tasks
JoinEarly ==
    /\ caller.pc = "join"
    /\ caller' = [caller EXCEPT !.pc = "sentinels"]
    /\ UNCHANGED <<config, network, hyperlinks, now, rate_limits, wqueue, unfinished_tasks,
                   rqueue, worker, yielded, history>>

\* shutdown_threads: self.wqueue.join() returns
Join ==
    /\ caller.pc = "join"
    /\ unfinished_tasks = 0
    /\ caller' = [caller EXCEPT !.pc = "sentinels"]
    /\ UNCHANGED <<config, network, hyperlinks, now, rate_limits, wqueue, unfinished_tasks,
                   rqueue, worker, yielded, history>>

\* shutdown_threads: one sentinel is put for a worker of self.workers
PutSentinel ==
    /\ caller.pc = "sentinels"
    /\ caller.sent < Cardinality(Workers)
    /\ wqueue' = QueuePut(wqueue, CheckRequest(CHECK_IMMEDIATELY, <<>>))
    /\ unfinished_tasks' = unfinished_tasks + 1
    /\ caller' = [caller EXCEPT !.sent = @ + 1]
    /\ UNCHANGED <<config, network, hyperlinks, now, rate_limits, rqueue, worker, yielded,
                   history>>

\* check returns: the generator is exhausted, the for loop of finish ends
\* and finish sets the status code of the process
Return ==
    /\ caller.pc = "sentinels"
    /\ caller.sent >= Cardinality(Workers)
    /\ caller' = [caller EXCEPT !.pc = "finished",
                                !.statuscode = IF caller.broken_hyperlinks # 0
                                               THEN 1 ELSE @]
    /\ UNCHANGED <<config, network, hyperlinks, now, rate_limits, wqueue, unfinished_tasks,
                   rqueue, worker, yielded, history>>

(***************************************************************************)
(* The workers: HyperlinkAvailabilityCheckWorker.run.                        *)
(***************************************************************************)
\* run, after check has returned outcome to the worker whose locals are
\* me: the result is put on the result queue next unless the status is
\* 'rate-limited'; then the item is done
AfterCheck(me, outcome) ==
    [me EXCEPT
        !.pc = IF PushesResult(outcome.status) THEN "push" ELSE "done",
        !.outcome = IF PushesResult(outcome.status) THEN outcome ELSE NoOutcome,
        !.status = outcome.status,
        !.attempt = 0, !.req_url = <<>>, !.anchor = <<>>, !.methods = <<>>,
        !.error_message = NoneText, !.plan = NoPlan]

\* check_uri is entered for the attempt-th time
StartAttempt(me, attempt) ==
    [me EXCEPT
        !.pc = "request", !.attempt = attempt,
        !.req_url = ReqUrl(me.check_request.hyperlink[1].uri),
        !.anchor = Anchor(me.check_request.hyperlink[1].uri,
                          config.linkcheck_anchors_ignore),
        !.methods = RetrievalMethods(config.linkcheck_anchors,
                        Anchor(me.check_request.hyperlink[1].uri,
                               config.linkcheck_anchors_ignore)),
        !.error_message = NoneText, !.response = NoResponse, !.plan = NoPlan]

\* check, after check_uri has returned outcome: the next attempt, or the
\* return of check
AfterAttempt(me, outcome) ==
    IF RetryAgain(outcome.status, me.attempt, config.linkcheck_retries)
    THEN [StartAttempt(me, me.attempt + 1) EXCEPT !.status = outcome.status]
    ELSE AfterCheck(me, outcome)

\* a worker thread ends by an exception nothing catches
Dies(w) == [Idle("dead") EXCEPT !.check_request = worker[w].check_request]

\* check_request = self.wqueue.get(); a sentinel ends the thread
Get(w) ==
    /\ worker[w].pc = "get"
    /\ wqueue # <<>>
    /\ wqueue' = Tail(wqueue)
    /\ IF Head(wqueue).hyperlink = <<>>
       THEN /\ worker' = [worker EXCEPT ![w] = Idle("exited")]
            /\ UNCHANGED history
       ELSE /\ worker' = [worker EXCEPT ![w] =
                  [Idle("gate") EXCEPT !.check_request = Head(wqueue)]]
            /\ history' = [history EXCEPT
                  !.handled = @ \cup {Head(wqueue).hyperlink[1].uri}]
    /\ UNCHANGED <<config, network, hyperlinks, now, rate_limits, unfinished_tasks, rqueue,
                   caller, yielded>>

\* a faulty variant of RefreshedNextCheck, which C17 must not survive: the
\* rate limit of the origin is not read
UnrefreshedNextCheck(limits, check_request) == check_request.next_check

\* the next_check the request is held to: that of the origin's rate limit
\* when there is one, else its own
RefreshedNextCheck(limits, check_request) ==
    LET netloc == Netloc(check_request.hyperlink[1].uri) IN
    IF netloc \in DOMAIN limits THEN limits[netloc].next_check
    ELSE check_request.next_check

\* a faulty variant of Deferred, which C16 must not survive: no request is
\* ever put back
NeverDeferred(next_check, t) == FALSE

\* run: whether the request is put back instead of checked
Deferred(next_check, t) == next_check > t

\* a faulty variant of EnterCheck, which C20 must not survive: every time
\* the URI was put back for a rate limit counts as an attempt made
EnterCheckSpent(w) ==
    LET triage == Triage(config, Held(w).uri, Held(w).docname)
        spent == Cardinality({l \in history.limited : l.uri = Held(w).uri})
    IN
    IF triage.decided THEN AfterCheck(worker[w], triage.outcome)
    ELSE IF config.linkcheck_retries - spent < 1 THEN Dies(w)
    ELSE StartAttempt(worker[w], 1 + spent)

\* check(docname) up to its first request: the triage, then the retry loop,
\* which does not run at all when linkcheck_retries < 1, so that the return
\* statement reads a status never assigned (UnboundLocalError)
EnterCheck(w) ==
    LET triage == Triage(config, Held(w).uri, Held(w).docname) IN
    IF triage.decided THEN AfterCheck(worker[w], triage.outcome)
    ELSE IF config.linkcheck_retries < 1 THEN Dies(w)
    ELSE StartAttempt(worker[w], 1)

\* the rate limit of the origin is read; the request is deferred or checked
Gate(w) ==
    /\ worker[w].pc = "gate"
    /\ LET next_check == RefreshedNextCheck(rate_limits, worker[w].check_request) IN
       IF Deferred(next_check, now)
       THEN worker' = [worker EXCEPT ![w] =
                [@ EXCEPT !.pc = "sleep", !.next_check = next_check,
                          !.wake = now + QUEUE_POLL_SECS]]
       ELSE worker' = [worker EXCEPT ![w] = EnterCheck(w)]
    /\ UNCHANGED <<config, network, hyperlinks, now, rate_limits, wqueue, unfinished_tasks,
                   rqueue, caller, yielded, history>>

\* a faulty variant of DeferPut, which C14 must not survive: the two
\* statements after the sleep are swapped, task_done first (the woken
\* worker is marked by a negative wake), then the put
DeferSwapped(w) ==
    /\ worker[w].pc = "sleep"
    /\ \/ /\ worker[w].wake >= 0
          /\ now >= worker[w].wake
          /\ unfinished_tasks' = unfinished_tasks - 1
          /\ worker' = [worker EXCEPT ![w].wake = 0 - 1]
          /\ UNCHANGED wqueue
       \/ /\ worker[w].wake < 0
          /\ wqueue' = QueuePut(wqueue,
                 CheckRequest(worker[w].next_check, worker[w].check_request.hyperlink))
          /\ unfinished_tasks' = unfinished_tasks + 1
          /\ worker' = [worker EXCEPT ![w] = Idle("get")]
    /\ UNCHANGED <<config, network, hyperlinks, now, rate_limits, rqueue, caller,
                   yielded, history>>

\* time.sleep(QUEUE_POLL_SECS) returns and the request is put back with
\* the refreshed next_check
DeferPut(w) ==
    /\ worker[w].pc = "sleep"
    /\ now >= worker[w].wake
    /\ wqueue' = QueuePut(wqueue,
           CheckRequest(worker[w].next_check, worker[w].check_request.hyperlink))
    /\ unfinished_tasks' = unfinished_tasks + 1
    /\ worker' = [worker EXCEPT ![w] = Idle("defer_done")]
    /\ UNCHANGED <<config, network, hyperlinks, now, rate_limits, rqueue, caller,
                   yielded, history>>

\* self.wqueue.task_done() of the deferral, and back to the get
DeferDone(w) ==
    /\ worker[w].pc = "defer_done"
    /\ unfinished_tasks' = unfinished_tasks - 1
    /\ worker' = [worker EXCEPT ![w] = Idle("get")]
    /\ UNCHANGED <<config, network, hyperlinks, now, rate_limits, wqueue, rqueue, caller,
                   yielded, history>>

\* what the answer out to the request of worker w leads to: the worker's
\* next position and the rate limits.  The status, the final URL and the
\* status of the last hop are copied from a response unless the search for
\* the anchor has raised.
Answered(w, out) ==
    LET req_url == worker[w].req_url
        anchor == worker[w].anchor
        v == MethodStep(config.linkcheck_anchors, anchor, out)
        plan == LimitRatePlan(rate_limits, out.url, out.retry_after, now,
                              config.linkcheck_rate_limit_timeout)
        me == IF /\ out.kind = "response"
                 /\ ~(/\ InspectsBody(config.linkcheck_anchors, out.status, anchor)
                      /\ ~contains_anchor(out.body, anchor))
              THEN [worker[w] EXCEPT !.response =
                       [status_code |-> out.status, response_url |-> out.url,
                        history |-> out.history]]
              ELSE worker[w]
    IN
    CASE v.tag = "return" ->
           [worker |-> AfterAttempt(me, v.outcome), rate_limits |-> rate_limits]
      [] v.tag = "continue" ->
           [worker |->
              IF Len(me.methods) > 1
              THEN [me EXCEPT !.methods = Tail(@), !.error_message = v.error_message]
              ELSE AfterAttempt(me, Outcome("broken", v.error_message, 0)),
            rate_limits |-> rate_limits]
      [] v.tag = "break" ->
           [worker |-> AfterAttempt(me,
                Classify(config.linkcheck_allowed_redirects, req_url, out.url,
                         out.history)),
            rate_limits |-> ClearRateLimit(rate_limits, Netloc(req_url))]
      [] v.tag = "limit" ->
           [worker |->
              IF plan.ret = "raise" THEN Dies(w)
              ELSE IF plan.ret = "none"
              THEN AfterAttempt(me, Outcome("broken", v.error_message, 0))
              ELSE [me EXCEPT !.pc = "limit_store", !.plan = plan,
                              !.error_message = v.error_message],
            rate_limits |-> rate_limits]

\* one retrieval method of check_uri: the request is issued and answered
Request(w) ==
    /\ worker[w].pc = "request"
    /\ LET uri == Held(w).uri
           anchor == worker[w].anchor
       IN
       \E out \in NetworkOutcomes(network, Head(worker[w].methods), worker[w].req_url,
                                  history.n429 < network.max429) :
          /\ \E answered \in {Answered(w, out)} :
                /\ worker' = [worker EXCEPT ![w] = answered.worker]
                /\ rate_limits' = answered.rate_limits
          /\ history' = [history EXCEPT
                !.requested = @ \cup {uri},
                !.n429 = IF out.kind = "response" /\ out.status = 429
                         THEN @ + 1 ELSE @,
                !.last429 = IF out.kind = "response" /\ out.status = 429
                            THEN [url |-> out.url, retry_after |-> out.retry_after,
                                  at |-> now]
                            ELSE @,
                !.inspected =
                    IF /\ out.kind = "response"
                       /\ InspectsBody(config.linkcheck_anchors, out.status, anchor)
                    THEN @ \cup {[uri |-> uri,
                                  found |-> contains_anchor(out.body, anchor)]}
                    ELSE @,
                !.late = @ \cup {e \in history.ended : e.uri = uri},
                !.answer = (w :> [method |-> Head(worker[w].methods),
                                  kind |-> out.kind, status |-> out.status]) @@ @,
                !.ended =
                    IF out.kind = "SSLError"
                    THEN @ \cup {[uri |-> uri, by |-> "SSLError"]}
                    ELSE IF out.kind = "response" /\ out.status \in {401, 503}
                    THEN @ \cup {[uri |-> uri, by |-> ToString(out.status)]}
                    ELSE @]
    /\ UNCHANGED <<config, network, hyperlinks, now, wqueue, unfinished_tasks, rqueue,
                   caller, yielded>>

\* limit_rate stores the rate limit and returns next_check; check_uri goes
\* on to re-enqueue when it is true, and returns broken when it is not
LimitStore(w) ==
    /\ worker[w].pc = "limit_store"
    /\ LET plan == worker[w].plan
           next_check == PlanNextCheck(plan, now)
       IN
       /\ rate_limits' = StoreRateLimit(rate_limits, plan.netloc,
                                        RateLimit(plan.delay, next_check))
       /\ worker' = [worker EXCEPT ![w] =
             IF Truthy(next_check)
             THEN [@ EXCEPT !.pc = "requeue", !.plan.next_check = next_check]
             ELSE AfterAttempt(@, Outcome("broken", worker[w].error_message, 0))]
       /\ history' = [history EXCEPT
             !.limited = @ \cup {[uri |-> Held(w).uri, netloc |-> plan.netloc,
                                   header |-> plan.header]}]
    /\ UNCHANGED <<config, network, hyperlinks, now, wqueue, unfinished_tasks, rqueue,
                   caller, yielded>>

\* check_uri puts the request back for next_check and returns 'rate-limited'
Requeue(w) ==
    /\ worker[w].pc = "requeue"
    /\ wqueue' = QueuePut(wqueue,
           CheckRequest(worker[w].plan.next_check, worker[w].check_request.hyperlink))
    /\ unfinished_tasks' = unfinished_tasks + 1
    /\ worker' = [worker EXCEPT ![w] =
          AfterAttempt(@, Outcome("rate-limited", <<>>, 0))]
    /\ UNCHANGED <<config, network, hyperlinks, now, rate_limits, rqueue, caller, yielded,
                   history>>

\* self.rqueue.put(CheckResult(uri, docname, lineno, status, info, code))
Push(w) ==
    /\ worker[w].pc = "push"
    /\ rqueue' = Append(rqueue,
           CheckResult(Held(w).uri, Held(w).docname, Held(w).lineno,
                       worker[w].outcome.status, worker[w].outcome.info,
                       worker[w].outcome.code))
    /\ worker' = [worker EXCEPT ![w] = Idle("done")]
    /\ UNCHANGED <<config, network, hyperlinks, now, rate_limits, wqueue, unfinished_tasks,
                   caller, yielded, history>>

\* self.wqueue.task_done() of a checked request, and back to the get
Done(w) ==
    /\ worker[w].pc = "done"
    /\ unfinished_tasks' = unfinished_tasks - 1
    /\ worker' = [worker EXCEPT ![w] = Idle("get")]
    /\ history' = [history EXCEPT
          !.answer = [x \in DOMAIN @ \ {w} |-> @[x]]]
    /\ UNCHANGED <<config, network, hyperlinks, now, rate_limits, wqueue, rqueue, caller,
                   yielded>>

(***************************************************************************)
(* Time.  It advances to an instant something is due at: the next_check of  *)
(* a queued or held request or of a rate limit.  A sleeping worker sleeps   *)
(* at least QUEUE_POLL_SECS and wakes at such an instant.                   *)
(***************************************************************************)
DueInstants ==
    {wqueue[i].next_check : i \in DOMAIN wqueue}
    \cup {rate_limits[n].next_check : n \in DOMAIN rate_limits}
    \cup {worker[w].check_request.next_check :
             w \in {x \in Workers : worker[x].pc = "gate"}}
    \cup {worker[w].next_check :
             w \in {x \in Workers : worker[x].pc = "sleep"}}
    \cup {worker[w].plan.next_check : w \in {x \in Workers : worker[x].pc = "requeue"}}

Tick ==
    /\ \E t \in DueInstants :
          /\ t > now
          /\ now' = t
    /\ UNCHANGED <<config, network, hyperlinks, rate_limits, wqueue, unfinished_tasks, rqueue,
                   worker, caller, yielded, history>>

WorkerStep(w) ==
    \/ Get(w)
    \/ Gate(w)
    \/ DeferPut(w)
    \/ DeferDone(w)
    \/ Request(w)
    \/ LimitStore(w)
    \/ Requeue(w)
    \/ Push(w)
    \/ Done(w)

CallerStep ==
    \/ invoke_threads
    \/ FeedIgnored
    \/ FeedPut
    \/ FeedEnd
    \/ Drain
    \/ DrainEnd
    \/ Join
    \/ PutSentinel
    \/ Return

Next ==
    \/ CallerStep
    \/ \E w \in Workers : WorkerStep(w)
    \/ Tick

(***************************************************************************)
(* Specifications.                                                           *)
(***************************************************************************)
\* "^!", the default of linkcheck_anchors_ignore
PatBang == [lit |-> <<"!">>, full |-> FALSE]

Config(retries, workers, anchors, rate_limit_timeout, allowed_redirects) ==
    [linkcheck_ignore |-> {PatI},
     linkcheck_exclude_documents |-> <<PatE>>,
     linkcheck_allowed_redirects |-> allowed_redirects,
     linkcheck_retries |-> retries,
     linkcheck_workers |-> workers,
     linkcheck_anchors |-> anchors,
     linkcheck_anchors_ignore |-> {PatBang},
     linkcheck_rate_limit_timeout |-> rate_limit_timeout,
     files |-> {UriFile}]

Network(raises, statuses, redirects, histories, bodies, retry_afters) ==
    [raises |-> raises, statuses |-> statuses, redirects |-> redirects,
     histories |-> histories, bodies |-> bodies, retry_afters |-> retry_afters,
     max429 |-> Max429]

\* The concurrent runs: one or two workers, an ignored link and two links
\* of one origin, servers that fail, redirect to another origin and limit.
MainConfigs ==
    {Config(0, 2, TRUE, 100, {}), Config(1, 2, TRUE, 100, {}),
     Config(2, 1, TRUE, 100, {})}

MainNetworks ==
    {Network({}, {404}, {"same", "other"}, {<<301>>},
             {{}, {[key |-> "id", value |-> <<"a">>]}}, {Absent, Seconds(1)})}

MainInputs == {<<LinkI, LinkHX, LinkHYa>>, <<LinkHX, LinkMail>>, <<LinkI>>}

Init == InitWith(MainConfigs, MainNetworks, MainInputs)

Spec == Init /\ [][Next]_vars

\* The checks of one link by one worker: every configuration, servers that
\* answer in every way.
CheckConfigs ==
    {Config(r, 1, a, 100, {}) : r \in 0..2, a \in BOOLEAN}
    \cup {Config(1, 1, TRUE, 50, {})}
    \cup {Config(1, 1, TRUE, 100, ar) :
             ar \in {{[from |-> PatHX, to |-> PatHXSlash]},
                     {[from |-> PatHX, to |-> PatG]}}}

CheckNetworks ==
    {Network({"SSLError", "ConnectionError", "TooManyRedirects", "Exception"},
             {401, 404, 503}, {"same", "slash", "other"}, {<<>>, <<301>>},
             {{}, {[key |-> "id", value |-> <<"a">>]},
              {[key |-> "name", value |-> <<"a">>]},
              {[key |-> "class", value |-> <<"a">>], [key |-> "id", value |-> <<"x">>]}},
             {Absent, Seconds(1), Seconds(500), HttpDate(StartTime + 3),
              NaiveDate(StartTime + 3), Junk})}

CheckInputs ==
    {<<LinkI, l>> : l \in {LinkHX, LinkHYa, LinkHYBang, LinkMail, LinkFile, LinkExcl}}

CheckInit == InitWith(CheckConfigs, CheckNetworks, CheckInputs)

SpecCheck == CheckInit /\ [][Next]_vars

\* The checks of one link by one worker against servers that answer 429
\* again and again, so that the back-off doubles, is clamped and is given
\* up.
BackoffConfigs == {Config(r, 1, TRUE, t, {}) : r \in 1..2, t \in {50, 100}}

BackoffNetworks ==
    {[Network({"ConnectionError"}, {404}, {"same", "other"}, {<<>>}, {{}},
              {Absent, Seconds(1), Seconds(500)})
         EXCEPT !.max429 = Max429 + 2]}

BackoffInputs == {<<LinkI, LinkHX>>, <<LinkI, LinkHYa>>}

BackoffInit == InitWith(BackoffConfigs, BackoffNetworks, BackoffInputs)

SpecBackoff == BackoffInit /\ [][Next]_vars

\* The triage: one worker, links of every kind the triage tells apart, in
\* documents excluded and not, at the root of the source directory and in a
\* subdirectory, with the file beside either; and a link of an excluded
\* document whose origin a checked link gets rate-limited.
TriageFiles == {{UriFile}, {FileInD}}

TriageConfigs == {[Config(1, 1, TRUE, 100, {}) EXCEPT !.files = f] : f \in TriageFiles}

TriageLinks ==
    {LinkMail, LinkMailExcl, LinkFile, LinkFileExcl, LinkFileSub, LinkTel, LinkHash,
     LinkEmpty, LinkFtp, LinkRel, LinkMissing, LinkExcl, LinkHX}

TriageInputs == {<<LinkI, l>> : l \in TriageLinks} \cup {<<LinkHX, LinkExclY>>}

TriageInit == InitWith(TriageConfigs, MainNetworks, TriageInputs)

SpecTriage == TriageInit /\ [][Next]_vars

\* Two workers and two links of one origin, which answers 429 without
\* Retry-After more than once.
RaceConfigs == {Config(1, 2, TRUE, t, {}) : t \in {100, 200}}

RaceNetworks ==
    {[Network({}, {404}, {"same"}, {<<>>}, {{}}, {Absent}) EXCEPT !.max429 = Max429 + 1]}

RaceInputs == {<<LinkI, LinkHX, LinkHYa>>}

RaceInit == InitWith(RaceConfigs, RaceNetworks, RaceInputs)

SpecRace == RaceInit /\ [][Next]_vars

\* The caller keeps taking results, every worker thread keeps running, and
\* time passes.
Fairness ==
    /\ WF_vars(CallerStep)
    /\ \A w \in 1..2 : WF_vars(w \in Workers /\ WorkerStep(w))
    /\ WF_vars(Tick)

\* The runs checked for liveness: two links, one of them ignored, under
\* every configuration of the main specification.
FairInputs == {<<LinkI, LinkHX>>, <<LinkHYa>>}
FairInit == InitWith(MainConfigs, MainNetworks, FairInputs)
FairSpec == FairInit /\ [][Next]_vars /\ Fairness

(***************************************************************************)
(* The rate limiter by itself: limit_rate is called and the record of an    *)
(* origin is cleared in any order, each as one step.                        *)
(***************************************************************************)
LimitTimeouts == {50, 60, 100, 240, 300}
LimitConfigs == {Config(1, 1, TRUE, timeout, {}) : timeout \in LimitTimeouts}
LimitUrls == {UriHX, UriGX}
LimitHeaders == {Absent, Junk, Seconds(7)}

\* no call of limit_rate for an origin since its last success; pure is
\* kept while no call was given a usable Retry-After
NoRun == [calls |-> <<>>, pure |-> TRUE]

LimitInit == InitWith(LimitConfigs, MainNetworks, {<<>>})

\* limit_rate(response_url, retry_after), the whole call
limit_rate(response_url, retry_after) ==
    /\ history.n429 < MaxCalls
    /\ LET plan == LimitRatePlan(rate_limits, response_url, retry_after, now,
                                 config.linkcheck_rate_limit_timeout)
           next_check == PlanNextCheck(plan, now)
           call == [ret |-> plan.ret, delay |-> plan.delay,
                    next_check |-> IF plan.ret = "store" THEN next_check ELSE 0,
                    at |-> now]
       IN
       /\ plan.ret # "raise"
       /\ rate_limits' =
             IF plan.ret = "store"
             THEN StoreRateLimit(rate_limits, plan.netloc,
                                 RateLimit(plan.delay, next_check))
             ELSE rate_limits
       /\ history' = [history EXCEPT
             !.n429 = @ + 1,
             !.runs = [n \in DOMAIN @ \cup {plan.netloc} |->
                 IF n # plan.netloc THEN @[n]
                 ELSE IF retry_after.kind \notin {"absent", "junk"}
                 THEN [calls |-> <<>>, pure |-> FALSE]
                 ELSE IF n \in DOMAIN @
                 THEN [@[n] EXCEPT !.calls = Append(@, call)]
                 ELSE [NoRun EXCEPT !.calls = <<call>>]]]
    /\ UNCHANGED <<config, network, hyperlinks, now, wqueue, unfinished_tasks, rqueue,
                   worker, caller, yielded>>

\* check_uri after a success: del self.rate_limits[netloc]
ClearOnSuccess(req_url) ==
    /\ rate_limits' = ClearRateLimit(rate_limits, Netloc(req_url))
    /\ history' = [history EXCEPT
          !.runs = [n \in DOMAIN @ \ {Netloc(req_url)} |-> @[n]]]
    /\ UNCHANGED <<config, network, hyperlinks, now, wqueue, unfinished_tasks, rqueue,
                   worker, caller, yielded>>

\* a second passes
Second ==
    /\ now < StartTime + MaxClock
    /\ now' = now + 1
    /\ UNCHANGED <<config, network, hyperlinks, rate_limits, wqueue, unfinished_tasks,
                   rqueue, worker, caller, yielded, history>>

LimitNext ==
    \/ \E response_url \in LimitUrls, retry_after \in LimitHeaders :
          limit_rate(response_url, retry_after)
    \/ \E req_url \in LimitUrls : ClearOnSuccess(req_url)
    \/ Second

SpecLimit == LimitInit /\ [][LimitNext]_vars

(***************************************************************************)
(* Properties.                                                               *)
(***************************************************************************)
\* The work queue never holds a sentinel beside a request, so that the
\* PriorityQueue never has to order None and a Hyperlink.
NoMixedQueue ==
    \A i, j \in DOMAIN wqueue :
       (wqueue[i].hyperlink = <<>>) = (wqueue[j].hyperlink = <<>>)

\* the uri matches a pattern of linkcheck_ignore
MatchesIgnore(uri) == \E pat \in config.linkcheck_ignore : Match(pat, uri)

\* how many of the results of a queue are results for uri
Occurrences(results, uri) == Cardinality({i \in DOMAIN results : results[i].uri = uri})

\* the input URIs that are not ignored
NonIgnored ==
    {hyperlinks[i].uri : i \in {j \in DOMAIN hyperlinks : ~MatchesIgnore(hyperlinks[j].uri)}}

\* C1: no non-ignored input URI ever has two results (yielded or waiting on
\* the result queue), and once check() has finished every such URI has had
\* exactly one result yielded, the number of results taken from the result
\* queue being the number of non-ignored URIs.
C1_ExactlyOneResult ==
    /\ \A uri \in NonIgnored :
          Occurrences(yielded, uri) + Occurrences(rqueue, uri) <= 1
    /\ caller.pc = "finished" =>
          /\ \A uri \in NonIgnored : Occurrences(yielded, uri) = 1
          /\ caller.done = Cardinality(NonIgnored)
          /\ rqueue = <<>>

\* check() has finished a run of two checked links, one of which was put
\* back after a 429
C1_Witness ==
    /\ caller.pc = "finished"
    /\ Cardinality(NonIgnored) = 2
    /\ history.n429 > 0
    /\ \E p \in history.limited : p.uri \in NonIgnored

\* C2: an input URI that matches a pattern of linkcheck_ignore is never on
\* the work queue, never held by a worker, never requested and never behind
\* a stored rate limit; its one result is yielded by the for loop of check()
\* itself and is ('ignored', '', 0).
C2_IgnoredBypassesWorkers ==
    \A i \in DOMAIN hyperlinks :
       LET hyperlink == hyperlinks[i] IN
       MatchesIgnore(hyperlink.uri) =>
          /\ hyperlink.uri \notin history.handled \cup history.requested
          /\ \A p \in history.limited : p.uri # hyperlink.uri
          /\ \A j \in DOMAIN wqueue : wqueue[j].hyperlink # <<hyperlink>>
          /\ \A w \in Workers : worker[w].check_request.hyperlink # <<hyperlink>>
          /\ Occurrences(rqueue, hyperlink.uri) = 0
          /\ \A j \in DOMAIN yielded :
                yielded[j].uri = hyperlink.uri =>
                   yielded[j] = CheckResult(hyperlink.uri, hyperlink.docname,
                                            hyperlink.lineno, "ignored", <<>>, 0)
          /\ Occurrences(yielded, hyperlink.uri) =
                IF caller.pc = "invoke" \/ (caller.pc = "feed" /\ caller.i <= i)
                THEN 0 ELSE 1

\* check() has finished a run with an ignored link beside links that were
\* requested and rate-limited
C2_Witness ==
    /\ caller.pc = "finished"
    /\ \E i \in DOMAIN hyperlinks : MatchesIgnore(hyperlinks[i].uri)
    /\ history.requested # {}
    /\ history.limited # {}

\* C3: under fair scheduling of the caller, the workers and the clock,
\* check() eventually returns with every result yielded and every worker
\* has, by then or later, taken a sentinel and exited.
C3_EventuallyReturns ==
    <>(/\ caller.pc = "finished"
       /\ \A uri \in NonIgnored : Occurrences(yielded, uri) = 1
       /\ \A w \in Workers : worker[w].pc = "exited")

\* check() waits for a result that will never come: the worker that took
\* the request has been ended by an exception, nothing is queued and no
\* other worker holds anything
C3_CallerBlocked ==
    /\ caller.pc = "drain"
    /\ caller.done < caller.total_links
    /\ rqueue = <<>>
    /\ wqueue = <<>>
    /\ \E w \in Workers : worker[w].pc = "dead"
    /\ \A w \in Workers : worker[w].pc \in {"dead", "get"}

\* the same liveness for the configurations whose linkcheck_retries is at
\* least one (the retry loop of check() runs at least once)
C3_ReturnsWhenRetrying ==
    (config.linkcheck_retries >= 1) => C3_EventuallyReturns

\* the statuses a pushed result may have
KnownStatuses == {"working", "broken", "redirected", "ignored", "unchecked"}

\* C4: no worker thread is ever ended by an exception, and every CheckResult
\* put on the result queue or yielded has a status process_result accepts.
C4_NoErrorEscapes ==
    /\ \A w \in Workers : worker[w].pc # "dead"
    /\ \A i \in DOMAIN rqueue : rqueue[i].status \in KnownStatuses
    /\ \A i \in DOMAIN yielded : yielded[i].status \in KnownStatuses

\* a worker thread has been ended by an exception while it held a request,
\* which is never marked done
C4_WorkerDied ==
    \E w \in Workers :
       /\ worker[w].pc = "dead"
       /\ worker[w].check_request.hyperlink # <<>>
       /\ unfinished_tasks > 0

\* the anchor of the uri is to be verified: linkcheck_anchors is set and the
\* uri has a fragment no pattern of linkcheck_anchors_ignore matches
VerifiesAnchor(uri) ==
    LET i == Find(uri, {"#"})
        fragment == SubSeq(uri, i + 1, Len(uri))
    IN  /\ config.linkcheck_anchors
        /\ i > 0
        /\ fragment # <<>>
        /\ ~\E rex \in config.linkcheck_anchors_ignore : Match(rex, fragment)

\* C5: a response body is searched for the anchor only when the anchor is
\* to be verified; a result "Anchor ... not found" is given only then, and
\* after a body without the anchor; and when the anchor is to be verified a
\* successful response is classified only after a body with the anchor.
C5_AnchorVerifiedWhenEnabled ==
    /\ \A seen \in history.inspected : VerifiesAnchor(seen.uri)
    /\ \A w \in Workers :
          worker[w].pc = "push" =>
             LET uri == Held(w).uri
                 outcome == worker[w].outcome
                 fragment == SubSeq(uri, Find(uri, {"#"}) + 1, Len(uri))
             IN
             /\ (outcome.status = "broken" /\ outcome.info = AnchorNotFound(fragment)) =>
                    /\ VerifiesAnchor(uri)
                    /\ [uri |-> uri, found |-> FALSE] \in history.inspected
             /\ (VerifiesAnchor(uri) /\ worker[w].response.status_code \in 0..399) =>
                    [uri |-> uri, found |-> TRUE] \in history.inspected

\* with linkcheck_anchors unset, a link with a fragment is reported broken
\* for its anchor after the empty body of the HEAD response was searched
C5_SearchedWhenDisabled ==
    \E w \in Workers :
       /\ worker[w].pc = "push"
       /\ ~config.linkcheck_anchors
       /\ Held(w).uri = UriHYa
       /\ worker[w].outcome = Outcome("broken", AnchorNotFound(<<"a">>), 0)
       /\ history.requested = {UriHYa}

\* the origin of a URL: what follows "//" up to the next "/", "?" or "#"
Origin(url) ==
    LET start == CHOOSE i \in 1..Len(url) : url[i] = "/" /\ url[i + 1] = "/"
        ends == {j \in (start + 2)..Len(url) : url[j] \in {"/", "?", "#"}}
        end == IF ends = {} THEN Len(url) + 1
               ELSE CHOOSE j \in ends : \A k \in ends : j <= k
    IN  SubSeq(url, start + 2, end - 1)

\* C8 (first half): when a 429 with a numeric Retry-After has been stored
\* and the request is about to be put back, the record of the origin that
\* answered holds the delay of that Retry-After.
C8_DelayIsRetryAfter ==
    \A w \in Workers :
       (worker[w].pc = "requeue" /\ history.last429.retry_after.kind = "num") =>
          /\ Origin(history.last429.url) \in DOMAIN rate_limits
          /\ rate_limits[Origin(history.last429.url)].delay
                = history.last429.retry_after.val

\* C8: the record holds the last numeric Retry-After, and once a later
\* attempt for the URI has succeeded (the worker is about to push the result
\* of a response below 400) no origin that answered 429 to a check of that
\* URI has a record left in the rate-limit map.
C8_RecordFollowsRetryAfter ==
    /\ C8_DelayIsRetryAfter
    /\ \A w \in Workers :
          (worker[w].pc = "push" /\ worker[w].response.status_code \in 0..399) =>
             \A p \in history.limited :
                (p.uri = Held(w).uri /\ p.header = "num") =>
                   p.netloc \notin DOMAIN rate_limits

\* a check of http://h/x was redirected to g, which answered 429 with a
\* numeric Retry-After; the later attempt has succeeded and the record of g
\* is still in the map
C8_RecordLeftBehind ==
    \E w \in Workers :
       /\ worker[w].pc = "push"
       /\ worker[w].response.status_code = 200
       /\ Held(w).uri = UriHX
       /\ [uri |-> UriHX, netloc |-> <<"g">>, header |-> "num"] \in history.limited
       /\ <<"g">> \in DOMAIN rate_limits
       /\ <<"h">> \notin DOMAIN rate_limits

\* a worker is about to push the result of a check whose last response was
\* a success (status below 400, its body accepted)
Succeeded(w) == worker[w].pc = "push" /\ worker[w].response.status_code \in 0..399

\* the URL requested for a uri: the uri up to its first "#"
RequestedUrl(uri) ==
    LET hashes == {i \in 1..Len(uri) : uri[i] = "#"} IN
    IF hashes = {} THEN uri
    ELSE SubSeq(uri, 1, (CHOOSE i \in hashes : \A k \in hashes : i <= k) - 1)

\* a and b are the same text once the "/" that end them are taken away
SameButTrailingSlashes(a, b) ==
    \E n \in 0..Len(a) :
       /\ n <= Len(b)
       /\ SubSeq(a, 1, n) = SubSeq(b, 1, n)
       /\ \A i \in (n + 1)..Len(a) : a[i] = "/"
       /\ \A i \in (n + 1)..Len(b) : b[i] = "/"

\* C9: after a successful response the result is ('working', '', 0) if the
\* final URL is the request URL up to trailing "/" or an allowed_redirects
\* pair matches the request URL and the final URL; otherwise it is
\* 'redirected' with the final URL as message and the status of the last
\* redirect hop, or 0 without a hop, as code.
C9_PostSuccessClassification ==
    \A w \in Workers :
       Succeeded(w) =>
          LET req_url == RequestedUrl(Held(w).uri)
              final == worker[w].response.response_url
              hops == worker[w].response.history
          IN  worker[w].outcome =
                 IF \/ SameButTrailingSlashes(final, req_url)
                    \/ \E pair \in config.linkcheck_allowed_redirects :
                          Match(pair.from, req_url) /\ Match(pair.to, final)
                 THEN Outcome("working", <<>>, 0)
                 ELSE Outcome("redirected", final,
                              IF hops = <<>> THEN 0 ELSE hops[Len(hops)])

\* a check of http://h/x answered after a 301 to http://g/x, which the
\* configured allowed_redirects pair does not permit, has been classified
\* 'redirected'
C9_Witness ==
    \E w \in Workers :
       /\ Succeeded(w)
       /\ Held(w).uri = UriHX
       /\ worker[w].response.response_url = UriGX
       /\ worker[w].response.history = <<301>>
       /\ config.linkcheck_allowed_redirects # {}
       /\ worker[w].outcome.status = "redirected"

\* C10 (as stated): the request for http://h/x answered after a 301 to
\* http://h/x/ is reported ('redirected', 'http://h/x/', 301) when
\* allowed_redirects is empty.
C10_SlashRedirectReported ==
    \A w \in Workers :
       (/\ Succeeded(w)
        /\ Held(w).uri = UriHX
        /\ worker[w].response.response_url = UriHXSlash
        /\ worker[w].response.history = <<301>>
        /\ config.linkcheck_allowed_redirects = {})
       => worker[w].outcome = Outcome("redirected", UriHXSlash, 301)

\* C10 (amended): the request for http://h/x answered after a 301 to
\* http://h/x/ is reported ('working', '', 0) when allowed_redirects is
\* empty: the two URLs differ by a trailing slash only.
C10_SlashRedirectWorking ==
    \A w \in Workers :
       (/\ Succeeded(w)
        /\ Held(w).uri = UriHX
        /\ worker[w].response.response_url = UriHXSlash
        /\ worker[w].response.history = <<301>>
        /\ config.linkcheck_allowed_redirects = {})
       => worker[w].outcome = Outcome("working", <<>>, 0)

\* the request for http://h/x has been answered after a 301 to http://h/x/
\* with allowed_redirects empty, and the result is about to be pushed
C10_Witness ==
    \E w \in Workers :
       /\ Succeeded(w)
       /\ Held(w).uri = UriHX
       /\ worker[w].response.response_url = UriHXSlash
       /\ worker[w].response.history = <<301>>
       /\ config.linkcheck_allowed_redirects = {}

Unusable(retry_after) == retry_after.kind \in {"absent", "junk"}

RECURSIVE Doubled(_)
Doubled(k) == IF k <= 1 THEN DEFAULT_DELAY ELSE 2 * Doubled(k - 1)

\* C7: in a run of calls of limit_rate for one origin without usable
\* Retry-After and without a success in between, the k-th call stores the
\* delay 60 doubled k - 1 times while that is within the timeout, stores
\* exactly the timeout when the doubled delay is the first to exceed it (the
\* delay before was below it), and returns None after that; every call that
\* stores returns next_check = now + delay, and that is the record kept.
C7_Doubling ==
    /\ DOMAIN rate_limits \subseteq DOMAIN history.runs
    /\ \A n \in DOMAIN history.runs :
       LET run == history.runs[n]
           cap == config.linkcheck_rate_limit_timeout
       IN
       run.pure =>
          /\ \A k \in DOMAIN run.calls :
                LET call == run.calls[k] IN
                IF Doubled(k) <= cap
                THEN /\ call.ret = "store"
                     /\ call.delay = Doubled(k)
                     /\ call.next_check = call.at + call.delay
                ELSE IF k > 1 /\ Doubled(k - 1) < cap
                THEN /\ call.ret = "store"
                     /\ call.delay = cap
                     /\ call.next_check = call.at + cap
                ELSE call.ret = "none"
          /\ LET stored == {k \in DOMAIN run.calls : run.calls[k].ret = "store"} IN
             IF stored = {} THEN n \notin DOMAIN rate_limits
             ELSE LET last == run.calls[CHOOSE k \in stored : \A j \in stored : j <= k]
                  IN  /\ n \in DOMAIN rate_limits
                      /\ rate_limits[n] = RateLimit(last.delay, last.next_check)

\* with a timeout of 300, five calls for the origin h have stored 60, 120,
\* 240 and the clamped 300, and the fifth has returned None
C7_Witness ==
    /\ config.linkcheck_rate_limit_timeout = 300
    /\ <<"h">> \in DOMAIN history.runs
    /\ LET run == history.runs[<<"h">>] IN
       /\ run.pure
       /\ Len(run.calls) = 5
       /\ run.calls[3].delay = 240
       /\ run.calls[4].delay = 300
       /\ run.calls[5].ret = "none"
       /\ rate_limits[<<"h">>].delay = 300

(***************************************************************************)
(* C11.  401 and 503 end the check of the URI.                               *)
(***************************************************************************)
\* the results on the result queue or yielded
Results == [i \in 1..(Len(yielded) + Len(rqueue)) |->
              IF i <= Len(yielded) THEN yielded[i] ELSE rqueue[i - Len(yielded)]]

\* the workers that hold a request for uri
Holders(uri) ==
    {w \in Workers : /\ worker[w].check_request.hyperlink # <<>>
                     /\ Held(w).uri = uri}

\* uri is on the work queue
Queued(uri) ==
    \E i \in DOMAIN wqueue :
       /\ wqueue[i].hyperlink # <<>>
       /\ wqueue[i].hyperlink[1].uri = uri

\* what the claim has a check end with after 401 or 503
TerminalOutcome(by) ==
    IF by = "401" THEN Outcome("working", <<"unauthorized">>, 0)
    ELSE Outcome("ignored", <<"service unavailable">>, 0)

\* C11: once a request for a URI has been answered by 401 (by 503), whatever
\* the method and the attempt, no request is issued for the URI any more,
\* the URI is never on the work queue again, the worker that holds it is
\* about to push ('working', 'unauthorized', 0) (('ignored', 'service
\* unavailable', 0)), and that is the only result the URI ever has.
C11_UnauthorizedAndUnavailableEnd ==
    \A e \in history.ended :
       e.by \in {"401", "503"} =>
          /\ e \notin history.late
          /\ ~Queued(e.uri)
          /\ \A w \in Holders(e.uri) :
                /\ worker[w].pc = "push"
                /\ worker[w].outcome = TerminalOutcome(e.by)
          /\ \A i \in DOMAIN Results :
                Results[i].uri = e.uri =>
                   /\ Results[i].status = TerminalOutcome(e.by).status
                   /\ Results[i].message = TerminalOutcome(e.by).info
                   /\ Results[i].code = 0
          /\ Cardinality(Holders(e.uri))
               + Cardinality({i \in DOMAIN Results : Results[i].uri = e.uri}) = 1

\* a run with two attempts allowed in which 401 has ended the check of a URI
\* checked by HEAD then GET, and its result has been yielded
C11_Witness ==
    /\ config.linkcheck_retries = 2
    /\ \E e \in history.ended :
          /\ e.by = "401"
          /\ e.uri = UriHX
          /\ \E i \in DOMAIN yielded :
                yielded[i].uri = e.uri /\ yielded[i].status = "working"

\* the same for 503, answered to the only method of a URI whose anchor is
\* verified
C11_WitnessUnavailable ==
    /\ config.linkcheck_retries = 2
    /\ config.linkcheck_anchors
    /\ \E e \in history.ended :
          /\ e.by = "503"
          /\ e.uri = UriHYa
          /\ \E i \in DOMAIN yielded :
                yielded[i].uri = e.uri /\ yielded[i].status = "ignored"

(***************************************************************************)
(* C12.  The shutdown protocol.                                              *)
(***************************************************************************)
\* the sentinels on the work queue
Sentinels == {i \in DOMAIN wqueue : wqueue[i].hyperlink = <<>>}

\* the workers whose thread has ended on a sentinel
Exited == {w \in Workers : worker[w].pc = "exited"}

\* C12: check() starts exactly linkcheck_workers threads, all of them at
\* once; a sentinel is put only after every expected result has been taken
\* from the result queue and join has returned, and from then on the work
\* queue holds no real request and no worker holds one; at most
\* linkcheck_workers sentinels are put, exactly that many when check()
\* returns; every sentinel put is either on the queue or has ended one
\* worker, so no worker takes two and, once check() has returned, as many
\* sentinels are left as workers have not yet taken theirs.
C12_ShutdownProtocol ==
    /\ Cardinality(Workers) = config.linkcheck_workers
    /\ \A w \in Workers : worker[w].pc = "unstarted" <=> caller.pc = "invoke"
    /\ caller.pc \notin {"sentinels", "finished"} =>
          /\ caller.sent = 0
          /\ Sentinels = {}
          /\ Exited = {}
    /\ caller.pc \in {"sentinels", "finished"} =>
          /\ caller.done = caller.total_links
          /\ rqueue = <<>>
          /\ \A i \in DOMAIN wqueue : wqueue[i].hyperlink = <<>>
          /\ \A w \in Workers : worker[w].pc \in {"get", "exited"}
          /\ caller.sent <= config.linkcheck_workers
          /\ Cardinality(Sentinels) + Cardinality(Exited) = caller.sent
    /\ caller.pc = "finished" =>
          /\ caller.sent = config.linkcheck_workers
          /\ Cardinality(Sentinels) = Cardinality(Workers \ Exited)

\* check() has returned after two workers have checked two links, one of
\* them re-enqueued for a rate limit, and both workers have taken their
\* sentinel
C12_Witness ==
    /\ caller.pc = "finished"
    /\ config.linkcheck_workers = 2
    /\ caller.total_links = 2
    /\ history.limited # {}
    /\ Exited = Workers
    /\ wqueue = <<>>

(***************************************************************************)
(* C13.  The exit status.                                                    *)
(***************************************************************************)
\* the results processed so far that are broken
BrokenResults == {i \in DOMAIN yielded : yielded[i].status = "broken"}

\* C13: broken_hyperlinks is at all times the number of 'broken' results
\* process_result has been given, no result makes process_result raise, and
\* once finish has processed every result the status code of the process is
\* 1 if at least one of them was 'broken' and 0 if none was.
C13_ExitStatus ==
    /\ caller.pc # "raised"
    /\ caller.broken_hyperlinks = Cardinality(BrokenResults)
    /\ caller.pc = "finished" =>
          caller.statuscode = (IF BrokenResults # {} THEN 1 ELSE 0)
    /\ caller.pc # "finished" => caller.statuscode = 0

\* finish has ended with two broken results among three
C13_Witness ==
    /\ caller.pc = "finished"
    /\ Len(yielded) = 3
    /\ Cardinality(BrokenResults) = 2
    /\ caller.statuscode = 1

\* finish has ended with results of which none is broken
C13_WitnessClean ==
    /\ caller.pc = "finished"
    /\ Len(yielded) = 3
    /\ \E i \in DOMAIN yielded : yielded[i].status = "redirected"
    /\ BrokenResults = {}
    /\ caller.statuscode = 0

(***************************************************************************)
(* C14.  The put of a re-enqueue comes before the task_done.                 *)
(***************************************************************************)
\* the URIs check() has put on the work queue
Fed ==
    {hyperlinks[i].uri : i \in {k \in 1..(caller.i - 1) :
        ~is_ignored_uri(config.linkcheck_ignore, hyperlinks[k].uri)}}

\* the URIs put on the work queue that have no result yet, neither on the
\* result queue nor yielded
Pending == {uri \in Fed : \A i \in DOMAIN Results : Results[i].uri # uri}

\* C14: in every reachable state, while a URI that check() has put on the
\* work queue has no result pushed to the result queue, the count of
\* unfinished tasks is at least 1, also right after a deferral or a
\* rate-limited re-enqueue; so join has not returned while a request is
\* pending.
C14_PendingKeepsJoinWaiting ==
    Pending # {} =>
       /\ unfinished_tasks >= 1
       /\ caller.pc \notin {"sentinels", "finished"}

\* both re-enqueue paths at once: a worker has put back a deferred request
\* and another a rate-limited one, neither has marked its item done yet, and
\* both URIs are without a result
C14_Witness ==
    /\ Cardinality(Pending) = 2
    /\ \E w1, w2 \in Workers :
          /\ worker[w1].pc = "defer_done"
          /\ worker[w2].pc = "done"
          /\ worker[w2].check_request # NoRequest
    /\ Len(wqueue) = 2
    /\ unfinished_tasks = 4

\* a deferred request is back on the queue, every worker looks for work
\* again, and the request is the one unfinished task
C14_WitnessOne ==
    /\ Cardinality(Pending) = 1
    /\ caller.pc = "drain"
    /\ unfinished_tasks = 1
    /\ \A w \in Workers : worker[w].pc = "get"
    /\ Len(wqueue) = 1
    /\ wqueue[1].next_check > now

(***************************************************************************)
(* C15.  The sentinel and task_done.                                         *)
(***************************************************************************)
\* C15: a worker marks the sentinel it has taken done before its thread
\* ends, so that once every worker has exited no task is unfinished: every
\* get of the run has been matched by one task_done.
C15_SentinelAcknowledged ==
    Exited = Workers => unfinished_tasks = 0

\* check() has returned, every worker has taken its sentinel and exited, the
\* work queue is empty, and the sentinels are still counted as unfinished
C15_SentinelsUnfinished ==
    /\ caller.pc = "finished"
    /\ Exited = Workers
    /\ wqueue = <<>>
    /\ unfinished_tasks = config.linkcheck_workers

(***************************************************************************)
(* C16.  The rate-limit gate.                                                *)
(***************************************************************************)
\* the map holds a record for the origin of uri whose next_check is later
\* than now
HeldBack(uri) ==
    /\ Netloc(uri) \in DOMAIN rate_limits
    /\ rate_limits[Netloc(uri)].next_check > now

\* C16 as stated: whenever a worker issues a request for a URI, be it the
\* first method, the fallback or a retry, the map holds no record for the
\* URI's origin with next_check later than now.
C16_NoRequestWhileHeldBack ==
    [][\A w \in Workers :
          (worker[w].pc = "request" /\ worker'[w] # worker[w])
             => ~HeldBack(Held(w).uri)]_vars

\* C16 as amended: whenever a worker goes on from the gate to check the URI
\* it has dequeued, the map it reads at that moment holds no record for the
\* URI's origin with next_check later than now.
C16_GateReadAtDequeue ==
    [][\A w \in Workers :
          (worker[w].pc = "gate" /\ worker'[w].pc \notin {"gate", "sleep"})
             => ~HeldBack(Held(w).uri)]_vars

\* a worker has been let through the gate with a request that was put back
\* for a rate limit, the record of its origin still in the map but no longer
\* ahead of the clock, and is about to issue its first request
C16_Witness ==
    \E w \in Workers :
       /\ worker[w].pc = "request"
       /\ worker[w].attempt = 1
       /\ Len(worker[w].methods) = Len(RetrievalMethods(config.linkcheck_anchors,
                                                       worker[w].anchor))
       /\ \E l \in history.limited : l.uri = Held(w).uri
       /\ Netloc(Held(w).uri) \in DOMAIN rate_limits
       /\ rate_limits[Netloc(Held(w).uri)].next_check <= now
       /\ worker[w].check_request.next_check > StartTime

(***************************************************************************)
(* C17.  Deferral.                                                           *)
(***************************************************************************)
\* worker w leaves the gate in this step
LeavesGate(w) == worker[w].pc = "gate" /\ worker'[w].pc # "gate"

\* the step of worker w defers its request to next_check: the worker sleeps
\* on it, nothing is requested, no result is pushed and the map is as it
\* was
DefersTo(w, next_check) ==
    /\ worker'[w].pc = "sleep"
    /\ worker'[w].next_check = next_check
    /\ worker'[w].check_request = worker[w].check_request
    /\ history' = history
    /\ rqueue' = rqueue
    /\ rate_limits' = rate_limits

\* the step of worker w puts the deferred request back with the next_check
\* it was deferred to and pushes no result
PutsBack(w) ==
    worker[w].pc = "sleep" /\ worker'[w] # worker[w] =>
       /\ now >= worker[w].wake
       /\ wqueue' = QueuePut(wqueue,
              CheckRequest(worker[w].next_check, worker[w].check_request.hyperlink))
       /\ history' = history
       /\ rqueue' = rqueue
       /\ rate_limits' = rate_limits

\* C17 as stated: a dequeued request is deferred exactly when the map holds
\* a record for its origin with next_check later than now, and is put back
\* with that record's next_check; in every other case it is checked at
\* once.
C17_DeferredOnlyByRecord ==
    [][\A w \in Workers :
          /\ LeavesGate(w) =>
                IF HeldBack(Held(w).uri)
                THEN DefersTo(w, rate_limits[Netloc(Held(w).uri)].next_check)
                ELSE worker'[w].pc # "sleep"
          /\ PutsBack(w)]_vars

\* C17 as amended: a dequeued request is deferred exactly when the
\* next_check it is held to is later than now, which is that of the record
\* of its origin when the map holds one and the request's own when it holds
\* none; it is put back with that next_check, and in every other case it
\* is checked at once.
C17_DeferredByRecordOrOwn ==
    [][\A w \in Workers :
          /\ LeavesGate(w) =>
                LET netloc == Netloc(Held(w).uri)
                    own == worker[w].check_request.next_check
                IN
                IF netloc \in DOMAIN rate_limits
                THEN IF rate_limits[netloc].next_check > now
                     THEN DefersTo(w, rate_limits[netloc].next_check)
                     ELSE worker'[w].pc # "sleep"
                ELSE IF own > now
                     THEN DefersTo(w, own)
                     ELSE worker'[w].pc # "sleep"
          /\ PutsBack(w)]_vars

\* a worker has just deferred a request put back for a rate limit whose
\* record another worker's success has cleared since: the map holds no
\* record for the origin, and the request is held to its own next_check
C17_Witness ==
    \E w \in Workers :
       /\ worker[w].pc = "sleep"
       /\ worker[w].wake = now + QUEUE_POLL_SECS
       /\ Netloc(Held(w).uri) \notin DOMAIN rate_limits
       /\ \E l \in history.limited :
             l.uri = Held(w).uri /\ l.netloc = Netloc(Held(w).uri)
       /\ worker[w].next_check = worker[w].check_request.next_check
       /\ worker[w].next_check > now

(***************************************************************************)
(* C18.  The reaction to HTTP 429.                                           *)
(***************************************************************************)
\* worker w takes a step from position pc
StepsFrom(w, pc) == worker[w].pc = pc /\ worker'[w] # worker[w]

\* the step is a request of worker w answered by 429
Answered429(w) == StepsFrom(w, "request") /\ history'.n429 = history.n429 + 1

\* C18: when a request is answered by 429 and the limiter returns a
\* next_check (the one it stores for the origin), the hyperlink is put back
\* on the work queue once, with that next_check, the attempt ends
\* 'rate-limited' with no further request, and the dequeue ends with
\* task_done and no result pushed; when the limiter returns none, nothing is
\* put on the work queue, the map is left as it was, and the attempt ends
\* 'broken': it is retried if attempts are left, else 'broken' is the
\* result.
C18_RateLimitedReaction ==
    [][\A w \in Workers :
          /\ StepsFrom(w, "limit_store") =>
                /\ worker'[w].pc = "requeue"
                /\ worker[w].plan.netloc \in DOMAIN rate_limits'
                /\ worker'[w].plan.next_check
                     = rate_limits'[worker[w].plan.netloc].next_check
                /\ history'.requested = history.requested
                /\ wqueue' = wqueue
                /\ rqueue' = rqueue
          /\ StepsFrom(w, "requeue") =>
                /\ wqueue' = QueuePut(wqueue,
                       CheckRequest(worker[w].plan.next_check,
                                    worker[w].check_request.hyperlink))
                /\ worker'[w].pc = "done"
                /\ worker'[w].outcome = NoOutcome
                /\ history' = history
                /\ rqueue' = rqueue
                /\ rate_limits' = rate_limits
          /\ (StepsFrom(w, "done") /\ worker[w].check_request # NoRequest) =>
                /\ worker'[w].pc = "get"
                /\ rqueue' = rqueue
                /\ wqueue' = wqueue
          /\ (Answered429(w) /\ worker'[w].pc \notin {"limit_store", "dead"}) =>
                /\ wqueue' = wqueue
                /\ rate_limits' = rate_limits
                /\ rqueue' = rqueue
                /\ IF worker[w].attempt < config.linkcheck_retries
                   THEN /\ worker'[w].pc = "request"
                        /\ worker'[w].attempt = worker[w].attempt + 1
                   ELSE /\ worker'[w].pc = "push"
                        /\ worker'[w].outcome.status = "broken"
                        /\ worker'[w].outcome.info = HTTPErrorText(429)]_vars

\* the limiter has just returned none for an origin it holds a record for:
\* the URI was put back for an earlier 429, whose record is still in the
\* map; the third 429 of the run has ended the first attempt of this
\* dequeue 'broken', the URI is not on the work queue, and the second
\* attempt is about to start
C18_Witness ==
    \E w \in Workers :
       /\ worker[w].pc = "request"
       /\ worker[w].attempt = 2
       /\ history.n429 = 3
       /\ \E l \in history.limited : l.uri = Held(w).uri
       /\ history.last429.at = now
       /\ history.last429.retry_after = Absent
       /\ Netloc(Held(w).uri) \in DOMAIN rate_limits
       /\ rate_limits[Netloc(Held(w).uri)].next_check <= now
       /\ ~Queued(Held(w).uri)
       /\ wqueue = <<>>

(***************************************************************************)
(* C19.  TLS failures.                                                       *)
(***************************************************************************)
\* C19: once a request for a URI has failed by SSLError, no request is
\* issued for the URI any more in the run, neither by the fallback method
\* nor by a further attempt of the retry loop, whatever linkcheck_retries
\* is, and the result of the URI is 'broken' with the message of the TLS
\* error.
C19_TLSFailureIsTerminal ==
    \A e \in history.ended :
       e.by = "SSLError" =>
          /\ e \notin history.late
          /\ \A i \in DOMAIN Results :
                Results[i].uri = e.uri =>
                   /\ Results[i].status = "broken"
                   /\ Results[i].message = ErrorText("SSLError")

\* a URI one request of which failed by SSLError was requested again and
\* has been reported as working
C19_WorkingAfterTLSFailure ==
    \E e \in history.late :
       /\ e.by = "SSLError"
       /\ \E i \in DOMAIN yielded :
             yielded[i].uri = e.uri /\ yielded[i].status = "working"

(***************************************************************************)
(* C20.  A re-queue does not use up retries.                                 *)
(***************************************************************************)
\* C20: every dequeue that goes on to check a URI over the network starts
\* with its first attempt, however often the URI was put back before, and
\* may make linkcheck_retries attempts; an attempt follows another only
\* within one dequeue, with nothing put on either queue in between, and a
\* check ends 'broken' by an answer of the network only in the last of the
\* linkcheck_retries attempts of its dequeue.
C20_RequeueKeepsRetries ==
    [][\A w \in Workers :
          /\ worker[w].pc = "request" =>
                worker[w].attempt \in 1..config.linkcheck_retries
          /\ (worker[w].pc = "gate" /\ worker'[w].pc = "request") =>
                worker'[w].attempt = 1
          /\ (worker[w].pc # "gate" /\ worker'[w].attempt > worker[w].attempt) =>
                /\ worker[w].pc \in {"request", "limit_store"}
                /\ worker'[w].pc = "request"
                /\ worker'[w].attempt = worker[w].attempt + 1
                /\ worker'[w].check_request = worker[w].check_request
                /\ wqueue' = wqueue
                /\ rqueue' = rqueue
          /\ (/\ worker[w].pc \in {"request", "limit_store"}
              /\ worker'[w].pc = "push"
              /\ worker'[w].outcome.status = "broken") =>
                worker[w].attempt = config.linkcheck_retries]_vars

\* a URI that was put back for a rate limit in an earlier dequeue, which
\* made at least one attempt, is in the second attempt of a later dequeue:
\* at least its third attempt in all, with two allowed
C20_Witness ==
    \E w \in Workers :
       /\ config.linkcheck_retries = 2
       /\ worker[w].pc = "request"
       /\ worker[w].attempt = 2
       /\ worker[w].check_request.next_check > StartTime
       /\ \E l \in history.limited : l.uri = Held(w).uri
       /\ history.n429 = 1
       /\ config.linkcheck_rate_limit_timeout = 100

(***************************************************************************)
(* C21.  The retry loop.                                                     *)
(***************************************************************************)
\* the URI worker w holds has to be checked over the network
PassesTriage(w) == ~Triage(config, Held(w).uri, Held(w).docname).decided

\* the step of worker w ends check(): the result is to be pushed, or the
\* item is done without one
EndsCheck(w) ==
    /\ worker[w].pc \in {"request", "limit_store", "requeue"}
    /\ worker'[w].pc \in {"push", "done"}

\* C21: a dequeue that goes on to check a URI that passes triage makes its
\* first attempt, and no attempt beyond the linkcheck_retries-th; an attempt
\* follows another only when that one ended 'broken'; check() ends on the
\* first attempt that is not 'broken' or on the last attempt allowed, and
\* what is reported is the outcome of that attempt (nothing for
\* 'rate-limited').
C21_RetryLoop ==
    [][\A w \in Workers :
          /\ (/\ worker[w].pc = "gate"
              /\ worker'[w].pc \notin {"gate", "sleep"}
              /\ PassesTriage(w)) =>
                /\ worker'[w].pc = "request"
                /\ worker'[w].attempt = 1
          /\ worker[w].pc = "request" =>
                worker[w].attempt \in 1..config.linkcheck_retries
          /\ (worker[w].pc # "gate" /\ worker'[w].attempt > worker[w].attempt) =>
                /\ worker'[w].attempt = worker[w].attempt + 1
                /\ worker'[w].status = "broken"
                /\ worker'[w].pc = "request"
          /\ EndsCheck(w) =>
                /\ \/ worker'[w].status # "broken"
                   \/ worker[w].attempt = config.linkcheck_retries
                /\ worker'[w].pc = "push" =>
                      /\ worker'[w].outcome.status = worker'[w].status
                      /\ worker'[w].status
                           \in {"working", "redirected", "ignored", "broken"}
                /\ worker'[w].pc = "done" => worker'[w].status = "rate-limited"]_vars

\* with linkcheck_retries = 0 a worker has ended on a URI that passes triage
\* without a single request issued for it
C21_NoAttemptMade ==
    \E w \in Workers :
       /\ worker[w].pc = "dead"
       /\ config.linkcheck_retries = 0
       /\ worker[w].check_request # NoRequest
       /\ PassesTriage(w)
       /\ Held(w).uri \notin history.requested

(***************************************************************************)
(* C22.  The retrieval methods of one attempt.                               *)
(***************************************************************************)
\* the anchor of the URI worker w holds has to be verified
AnchorRequired(w) ==
    /\ config.linkcheck_anchors
    /\ Anchor(Held(w).uri, config.linkcheck_anchors_ignore) # <<>>

\* an answer after which the next method is tried: a connection error, too
\* many redirects, or an HTTP error other than 401, 429 and 503
Recoverable(answer) ==
    \/ answer.kind \in {"ConnectionError", "TooManyRedirects"}
    \/ /\ answer.kind = "response"
       /\ answer.status >= 400
       /\ answer.status \notin {401, 429, 503}

\* str(err) of a recoverable answer
RecoverableText(answer) ==
    IF answer.kind = "response" THEN HTTPErrorText(answer.status)
    ELSE ErrorText(answer.kind)

\* C22: the first request of an attempt is a GET when the anchor has to be
\* verified and a HEAD otherwise; a second request is made in an attempt
\* only by the worker that made the first, only with GET, and only after a
\* HEAD that ended in a recoverable error, never after a HEAD that was
\* answered with success or ended the attempt otherwise; and when the last
\* method tried fails recoverably the attempt is 'broken', with the message
\* of that last error when it is the outcome reported.
C22_MethodOrder ==
    [][\A w \in Workers :
          StepsFrom(w, "request") =>
             LET first == worker[w].error_message = NoneText
                 answer == history'.answer[w]
                 goes_on == /\ worker'[w].pc = "request"
                            /\ worker'[w].attempt = worker[w].attempt
             IN
             /\ first =>
                   answer.method = (IF AnchorRequired(w) THEN "GET" ELSE "HEAD")
             /\ ~first =>
                   /\ answer.method = "GET"
                   /\ ~AnchorRequired(w)
                   /\ w \in DOMAIN history.answer
                   /\ history.answer[w].method = "HEAD"
                   /\ Recoverable(history.answer[w])
             /\ goes_on <=> (answer.method = "HEAD" /\ Recoverable(answer))
             /\ (answer.method = "GET" /\ Recoverable(answer)) =>
                   /\ worker'[w].status = "broken"
                   /\ \/ /\ worker'[w].pc = "push"
                         /\ worker'[w].outcome
                              = Outcome("broken", RecoverableText(answer), 0)
                      \/ /\ worker'[w].pc = "request"
                         /\ worker'[w].attempt = worker[w].attempt + 1]_vars

\* HEAD, then GET, have both failed recoverably in the only attempt allowed:
\* the check is about to be reported broken with the error of the GET
C22_Witness ==
    \E w \in Workers :
       /\ config.linkcheck_retries = 1
       /\ worker[w].pc = "push"
       /\ ~AnchorRequired(w)
       /\ w \in DOMAIN history.answer
       /\ history.answer[w].method = "GET"
       /\ history.answer[w].kind = "TooManyRedirects"
       /\ worker[w].response.status_code = 404
       /\ worker[w].outcome = Outcome("broken", ErrorText("TooManyRedirects"), 0)

(***************************************************************************)
(* C23.  The triage before the network.                                      *)
(***************************************************************************)
\* the document is one of linkcheck_exclude_documents
DocExcluded(docname) ==
    \E i \in DOMAIN config.linkcheck_exclude_documents :
       Match(config.linkcheck_exclude_documents[i], docname)

IsHttp(uri) ==
    \/ StartsWith(uri, <<"h", "t", "t", "p", ":">>)
    \/ StartsWith(uri, <<"h", "t", "t", "p", "s", ":">>)

\* the URI is empty or an anchor, a mail address or a telephone number
NothingToCheck(uri) ==
    \/ uri = <<>>
    \/ StartsWith(uri, <<"#">>)
    \/ StartsWith(uri, <<"m", "a", "i", "l", "t", "o", ":">>)
    \/ StartsWith(uri, <<"t", "e", "l", ":">>)

\* the local path uri exists beside the document
ExistsBeside(uri, docname) == PathJoin(Dirname(docname), uri) \in config.files

\* the step of worker w ends check() with status, with no message and code 0
Settles(w, status) ==
    /\ worker'[w].pc = "push"
    /\ worker'[w].outcome = Outcome(status, <<>>, 0)

\* C23: the step that takes a request past the gate into check() leaves the
\* rate limits as they were and requests nothing, and what it decides goes
\* by the document first, then by the kind of URI: a link of an excluded
\* document is 'ignored', with a reason, whatever its URI; otherwise an
\* empty URI, an anchor, a mailto: or a tel: URI is 'unchecked'; otherwise a
\* URI that is not http(s) and has the form of a URL is 'unchecked';
\* otherwise a URI that is not http(s) is a local path, 'working' when it
\* exists beside the document and 'broken' when it does not; an http(s) URI
\* alone is left undecided, for the retry loop, and nothing else is ever
\* requested.
C23_TriageOrder ==
    [][/\ \A w \in Workers :
            (LeavesGate(w) /\ worker'[w].pc # "sleep") =>
                LET uri == Held(w).uri
                    docname == Held(w).docname
                IN
                /\ rate_limits' = rate_limits
                /\ history'.requested = history.requested
                /\ worker'[w].check_request = worker[w].check_request
                /\ IF DocExcluded(docname)
                   THEN /\ worker'[w].pc = "push"
                        /\ worker'[w].outcome.status = "ignored"
                        /\ worker'[w].outcome.info # <<>>
                        /\ worker'[w].outcome.code = 0
                   ELSE IF NothingToCheck(uri) THEN Settles(w, "unchecked")
                   ELSE IF ~IsHttp(uri) /\ uri_re_match(uri) THEN Settles(w, "unchecked")
                   ELSE IF ~IsHttp(uri) /\ ExistsBeside(uri, docname)
                   THEN Settles(w, "working")
                   ELSE IF ~IsHttp(uri) THEN Settles(w, "broken")
                   ELSE /\ worker'[w].pc \in {"request", "dead"}
                        /\ worker'[w].outcome = NoOutcome
       /\ \A i \in DOMAIN hyperlinks :
            hyperlinks[i].uri \in history'.requested =>
                IsHttp(hyperlinks[i].uri) /\ ~DocExcluded(hyperlinks[i].docname)
       /\ \A uri \in history'.requested : \E i \in DOMAIN hyperlinks : hyperlinks[i].uri = uri
      ]_vars

\* a mail address in an excluded document has been reported 'ignored', and
\* nothing was requested for it
C23_Witness ==
    /\ \E i \in DOMAIN hyperlinks : hyperlinks[i] = LinkMailExcl
    /\ \E i \in DOMAIN yielded :
          /\ yielded[i].uri = UriMail
          /\ yielded[i].status = "ignored"
          /\ yielded[i].message # <<>>
    /\ UriMail \notin history.requested

\* an image that exists at the root of the source directory is linked from a
\* document of a subdirectory, where it does not exist: 'broken'
C23_WitnessBeside ==
    /\ config.files = {UriFile}
    /\ \E i \in DOMAIN yielded :
          /\ yielded[i].uri = UriFile
          /\ yielded[i].docname = DocSub
          /\ yielded[i].status = "broken"

\* an http link of an excluded document is 'ignored' and never requested
C23_WitnessLimited ==
    /\ \E i \in DOMAIN yielded :
          /\ yielded[i].uri = UriHYa
          /\ yielded[i].docname = DocE
          /\ yielded[i].status = "ignored"
    /\ UriHYa \notin history.requested

(***************************************************************************)
(* C24.  The workers and the one map of rate limits.                         *)
(***************************************************************************)
\* the step is the store of limit_rate by worker w, of a delay it computed
\* from the map because the response gave no usable Retry-After
StoresBackoff(w) == StepsFrom(w, "limit_store") /\ worker[w].plan.timed

\* the delay limit_rate computes for netloc from the map as it is
BackoffNow(netloc) ==
    IF netloc \in DOMAIN rate_limits
    THEN Backoff(rate_limits[netloc].delay, config.linkcheck_rate_limit_timeout)
    ELSE DEFAULT_DELAY

\* C24: limit_rate reads, computes and stores as one step among the
\* workers: the delay a worker stores for an origin, when the response gave
\* no usable Retry-After, is the back-off of the record the map holds for
\* that origin at the store (DEFAULT_DELAY when it holds none), so that of
\* two workers answered 429 by one origin the second stores the back-off of
\* what the first stored, and no record is replaced by one computed before
\* it was stored.
C24_RateLimitsSerialized ==
    [][\A w \in Workers :
          StoresBackoff(w) =>
             rate_limits'[worker[w].plan.netloc].delay = BackoffNow(worker[w].plan.netloc)
      ]_vars

\* two workers were answered 429 without Retry-After by one origin, nothing
\* has succeeded, both have stored and neither has put its request back:
\* the delay in the map is that of one back-off step, DEFAULT_DELAY
C24_LostUpdate ==
    /\ Cardinality(Workers) = 2
    /\ \A w \in Workers :
          /\ worker[w].pc = "requeue"
          /\ worker[w].plan.timed
          /\ worker[w].plan.delay = DEFAULT_DELAY
          /\ Netloc(Held(w).uri) \in DOMAIN rate_limits
          /\ worker[w].plan.netloc = Netloc(Held(w).uri)
          /\ rate_limits[worker[w].plan.netloc].delay = DEFAULT_DELAY
    /\ \A i \in DOMAIN yielded : yielded[i].status = "ignored"
    /\ rqueue = <<>>
    /\ history.n429 = 2

(***************************************************************************)
(* C25.  Every pending URI is in one place.                                  *)
(***************************************************************************)
\* the places of the work queue that hold a request for uri
Copies(uri) ==
    {i \in DOMAIN wqueue : /\ wqueue[i].hyperlink # <<>>
                           /\ wqueue[i].hyperlink[1].uri = uri}

\* the workers that are at work on a request for uri: dequeued, and neither
\* put back nor reported yet.  A thread that has died is at work on nothing.
AtWork(uri) ==
    {w \in Holders(uri) :
        worker[w].pc \in {"gate", "sleep", "request", "limit_store", "requeue", "push"}}

\* the workers that are past check() for uri and have still to call task_done
MarkingDone(uri) == {w \in Holders(uri) : worker[w].pc = "done"}

\* the hyperlink is one of the input, as it was given
Original(hyperlink) == \E i \in DOMAIN hyperlinks : hyperlinks[i] = hyperlink

\* C25: in every reachable state each URI put on the work queue that has no
\* result yet is in exactly one place, once on the work queue or with one
\* worker that is at work on it; so no URI is on the queue twice or with two
\* workers at once, and a worker that has put its request back for a rate
\* limit and has still to call task_done is not counted as a second place.
\* A URI that has a result is in no place.  Every request on the queue or
\* with a worker and every result carries the uri, docname and lineno of a
\* hyperlink of the input.
C25_SingleLocation ==
    /\ \A uri \in Pending :
          Cardinality(Copies(uri)) + Cardinality(AtWork(uri)) = 1
    /\ \A uri \in Fed \ Pending :
          /\ Copies(uri) = {}
          /\ AtWork(uri) = {}
          /\ Cardinality({i \in DOMAIN Results : Results[i].uri = uri}) = 1
    /\ \A i \in DOMAIN wqueue :
          wqueue[i].hyperlink # <<>> =>
             /\ Len(wqueue[i].hyperlink) = 1
             /\ Original(wqueue[i].hyperlink[1])
             /\ wqueue[i].hyperlink[1].uri \in Pending
    /\ \A w \in Workers :
          worker[w].check_request.hyperlink # <<>> =>
             /\ Original(Held(w))
             /\ Held(w).uri \in Fed
    /\ \A i \in DOMAIN Results :
          Original([uri |-> Results[i].uri, docname |-> Results[i].docname,
                    lineno |-> Results[i].lineno])

\* the thread that held the only request for a pending URI has died: the
\* URI is on no queue and with no worker at work
C25_LostWithThread ==
    \E uri \in Pending :
       /\ Copies(uri) = {}
       /\ AtWork(uri) = {}
       /\ \E w \in Holders(uri) : worker[w].pc = "dead"

\* a request put back for a rate limit is held by a second worker while the
\* first has still to call task_done
C25_PutBackAndTaken ==
    \E uri \in Pending :
       /\ MarkingDone(uri) # {}
       /\ AtWork(uri) # {}
       /\ Copies(uri) = {}

=============================================================================
